---- MODULE Spec2Model ----
(***************************************************************************)
(* Admission-control service: rule engine + event-sourced rate limiter.    *)
(* Model of the integrated server (cmd/integrated-server), its command     *)
(* handler, event store, rule repositories, aggregate and read model.      *)
(*                                                                         *)
(* Time is counted in whole seconds.  Strings that the code inspects       *)
(* character by character (ids, resources, addresses, user agents,         *)
(* durations) are sequences of one-character strings.                      *)
(***************************************************************************)
EXTENDS Integers, Sequences, FiniteSets, TLC

(***************************************************************************)
(* Bounds of the model                                                     *)
(***************************************************************************)
MaxTime == 2
MaxEvents == 2
MaxRules == 4
MaxSecRules == 4
NumProcs == 2
MaxLoginRequests == 4
MaxStream == 4
MaxQueued == 2
MaxHistory == 2

Procs == 1..NumProcs

(***************************************************************************)
(* Program constants                                                       *)
(***************************************************************************)
Second == 1
Minute == 60
Hour == 3600
ApiLimit == 100
LoginLimit == 5
UploadLimit == 10
LoginWindowMinutes == 15
DynLoginLimit == 3
BlacklistPriority == 200
LoginRulePriority == 150
WhitelistPriority == 300
IPRulePriority == 100
\* time.Time{}: the zero time, before every instant the clock can show
ZeroTime == -1

(***************************************************************************)
(* Strings                                                                 *)
(***************************************************************************)
ResApi == <<"a", "p", "i">>
ResLogin == <<"l", "o", "g", "i", "n">>
ResUpload == <<"u", "p", "l", "o", "a", "d">>
ResData == <<"d", "a", "t", "a">>
ClientU == <<"u">>
IpInternal == <<"1", "9", "2", ".", "1", "6", "8", ".", "1", ".", "5">>
IpExternal == <<"8", ".", "8", ".", "8", ".", "8">>
UaBotTester == <<"b", "o", "t", "-", "t", "e", "s", "t", "e", "r", "/", "1", ".", "0">>
UaBot == <<"b", "o", "t">>
UaMozilla == <<"M", "o", "z", "i", "l", "l", "a">>
StrBot == <<"b", "o", "t">>
StrInternalPrefix == <<"1", "9", "2", ".", "1", "6", "8", ".">>
StrFiveMinutes == <<"5", "m">>
\* algorithm names are only stored and compared whole: one token each
AlgSlidingWindow == <<"sliding_window">>
AlgFixedWindow == <<"fixed_window">>

\* the inputs the actions draw from
Clients == {ClientU}
Resources == {ResApi, ResLogin, ResData}
IPs == {IpInternal, IpExternal}
UserAgents == {UaBotTester, UaMozilla}
RuleLimits == {0, 1, 2}
RuleWindows == {1 * Second}
RuleResources == {ResData}
\* the resources the callers of the command handler address
CommandResources == {ResLogin, ResData}

\* aggregateID := cmd.ClientID + ":" + cmd.Resource
AggregateID(clientID, resource) == clientID \o <<":">> \o resource

Keys == {AggregateID(c, r) : c \in Clients, r \in Resources}

(***************************************************************************)
(* Domain events                                                           *)
(***************************************************************************)
NoEvent ==
    [type |-> "none", id |-> 0, time |-> ZeroTime, aggrID |-> <<>>, version |-> 0,
     clientID |-> <<>>, resource |-> <<>>, windowStart |-> ZeroTime,
     windowEnd |-> ZeroTime, requestCount |-> 0, limit |-> 0,
     remainingQuota |-> 0, blockedUntil |-> ZeroTime]

\* id stands for the event's unique ID string: here the caller that built it
RateLimitAppliedEvent(id, now, clientID, resource, version, windowStart, windowEnd, requestCount, limit, remainingQuota) ==
    [type |-> "RateLimitApplied", id |-> id, time |-> now,
     aggrID |-> AggregateID(clientID, resource), version |-> version,
     clientID |-> clientID, resource |-> resource, windowStart |-> windowStart,
     windowEnd |-> windowEnd, requestCount |-> requestCount, limit |-> limit,
     remainingQuota |-> remainingQuota, blockedUntil |-> ZeroTime]

RateLimitExceededEvent(id, now, clientID, resource, version, requestCount, limit, windowStart, windowEnd, blockedUntil) ==
    [type |-> "RateLimitExceeded", id |-> id, time |-> now,
     aggrID |-> AggregateID(clientID, resource), version |-> version,
     clientID |-> clientID, resource |-> resource, windowStart |-> windowStart,
     windowEnd |-> windowEnd, requestCount |-> requestCount, limit |-> limit,
     remainingQuota |-> 0, blockedUntil |-> blockedUntil]

RateLimitWindowResetEvent(id, now, clientID, resource, version, windowStart) ==
    [type |-> "RateLimitWindowReset", id |-> id, time |-> now,
     aggrID |-> AggregateID(clientID, resource), version |-> version,
     clientID |-> clientID, resource |-> resource, windowStart |-> windowStart,
     windowEnd |-> ZeroTime, requestCount |-> 0, limit |-> 0,
     remainingQuota |-> 0, blockedUntil |-> ZeroTime]

(***************************************************************************)
(* Rate-limit aggregate                                                    *)
(***************************************************************************)
NewRateLimitAggregate(clientID, resource) ==
    [id |-> AggregateID(clientID, resource), requestCount |-> 0,
     windowStart |-> ZeroTime, windowEnd |-> ZeroTime, remainingQuota |-> 0,
     isBlocked |-> FALSE, blockedUntil |-> ZeroTime, events |-> <<>>, version |-> 0]

\* the state fields an event of each kind overwrites
ApplyEventState(a, e) ==
    CASE e.type = "RateLimitApplied" ->
           [a EXCEPT !.requestCount = e.requestCount, !.windowStart = e.windowStart,
                     !.windowEnd = e.windowEnd, !.remainingQuota = e.remainingQuota]
      [] e.type = "RateLimitExceeded" ->
           [a EXCEPT !.isBlocked = TRUE, !.blockedUntil = e.blockedUntil,
                     !.requestCount = e.requestCount]
      [] e.type = "RateLimitWindowReset" ->
           [a EXCEPT !.requestCount = 0, !.windowStart = e.windowStart,
                     !.isBlocked = FALSE, !.blockedUntil = ZeroTime]
      [] OTHER -> a

\* ApplyEvent with the version bump inside the RateLimitApplied case only
ApplyEventBumpOnApplied(a, e) ==
    LET s == ApplyEventState(a, e)
    IN [s EXCEPT !.version = IF e.type = "RateLimitApplied" THEN a.version + 1
                             ELSE a.version,
                 !.events = Append(a.events, e)]

ApplyEvent(a, e) ==
    LET s == ApplyEventState(a, e)
    IN [s EXCEPT !.version = a.version + 1, !.events = Append(a.events, e)]

RECURSIVE ApplyEvents(_, _, _)
ApplyEvents(a, evs, i) ==
    IF i > Len(evs) THEN a ELSE ApplyEvents(ApplyEvent(a, evs[i]), evs, i + 1)

\* aggregate := NewRateLimitAggregate(...); for each event: aggregate.ApplyEvent(event)
Rehydrate(clientID, resource, evs) ==
    ApplyEvents(NewRateLimitAggregate(clientID, resource), evs, 1)

\* CanMakeRequest that does not look at the remaining quota
CanMakeRequestIgnoringQuota(a, rule, now) == ~(a.isBlocked /\ now < a.blockedUntil)

\* CanMakeRequest that does not look at blockedUntil
CanMakeRequestWhileFlagged(a, rule, now) ==
    IF a.isBlocked THEN FALSE
    ELSE IF now > a.windowEnd THEN TRUE
    ELSE a.remainingQuota > 0

\* CanMakeRequest that takes the instant windowEnd for expired
CanMakeRequestAtWindowEnd(a, rule, now) ==
    IF a.isBlocked /\ now < a.blockedUntil THEN FALSE
    ELSE IF now >= a.windowEnd THEN TRUE
    ELSE a.remainingQuota > 0

CanMakeRequest(a, rule, now) ==
    IF a.isBlocked /\ now < a.blockedUntil THEN FALSE
    ELSE IF now > a.windowEnd THEN TRUE
    ELSE a.remainingQuota > 0

\* time.Time.Truncate(d): round down to a multiple of d; d <= 0 leaves t as it is
Truncate(t, d) == IF d <= 0 THEN t ELSE t - (t % d)

(***************************************************************************)
(* Event store                                                             *)
(***************************************************************************)
\* SaveEvents without the expected-version check
SaveEventsNoCheck(store, aggregateID, newEvents, expectedVersion) ==
    [err |-> "ok",
     store |-> [store EXCEPT ![aggregateID] = store[aggregateID] \o newEvents]]

\* SaveEvents with the comparison the wrong way round: only a stream shorter
\* than expected is a conflict
SaveEventsLessThan(store, aggregateID, newEvents, expectedVersion) ==
    IF Len(store[aggregateID]) < expectedVersion
    THEN [err |-> "conflict", store |-> store]
    ELSE [err |-> "ok",
          store |-> [store EXCEPT ![aggregateID] = store[aggregateID] \o newEvents]]

\* SaveEvents that appends before it checks the version
SaveEventsAppendFirst(store, aggregateID, newEvents, expectedVersion) ==
    [err |-> IF Len(store[aggregateID]) # expectedVersion THEN "conflict" ELSE "ok",
     store |-> [store EXCEPT ![aggregateID] = store[aggregateID] \o newEvents]]

\* SaveEvents that puts the new events in front of the stream
SaveEventsPrepend(store, aggregateID, newEvents, expectedVersion) ==
    IF Len(store[aggregateID]) # expectedVersion
    THEN [err |-> "conflict", store |-> store]
    ELSE [err |-> "ok",
          store |-> [store EXCEPT ![aggregateID] = newEvents \o store[aggregateID]]]

\* result of SaveEvents: the error (if any) and the store afterwards
SaveEvents(store, aggregateID, newEvents, expectedVersion) ==
    LET existingEvents == store[aggregateID]
    IN IF Len(existingEvents) # expectedVersion
       THEN [err |-> "conflict", store |-> store]
       ELSE [err |-> "ok",
             store |-> [store EXCEPT ![aggregateID] = existingEvents \o newEvents]]

\* a copy of the stream, in stored order
GetEvents(store, aggregateID) ==
    [i \in 1..Len(store[aggregateID]) |-> store[aggregateID][i]]

(***************************************************************************)
(* Rate-limit rule repository (a map from rule id to rule)                 *)
(***************************************************************************)
RateLimitRule(id, resource, limit, window, algorithm) ==
    [id |-> id, resource |-> resource, limit |-> limit, window |-> window,
     algorithm |-> algorithm]

\* r.rules[rule.ID] = rule
RuleRepoSave(repo, rule) == {x \in repo : x.id # rule.id} \cup {rule}

NoRule == RateLimitRule(0, <<>>, 0, 0, <<>>)

\* GetByID: the rule stored under the id, or the not-found error
RuleRepoGetByID(repo, id) ==
    IF \E x \in repo : x.id = id
    THEN [err |-> "ok", rule |-> CHOOSE x \in repo : x.id = id]
    ELSE [err |-> "notfound", rule |-> NoRule]

RuleRepoUpsert(repo, rule) == [err |-> "ok", repo |-> RuleRepoSave(repo, rule)]

\* Update: only a rule whose id is in the map is replaced
RuleRepoUpdate(repo, rule) ==
    IF \E x \in repo : x.id = rule.id
    THEN [err |-> "ok", repo |-> RuleRepoSave(repo, rule)]
    ELSE [err |-> "notfound", repo |-> repo]

\* Delete: only an id that is in the map is removed
RuleRepoDelete(repo, id) ==
    IF \E x \in repo : x.id = id
    THEN [err |-> "ok", repo |-> {x \in repo : x.id # id}]
    ELSE [err |-> "notfound", repo |-> repo]

\* the rules of a resource; a Go map is iterated in no fixed order, so the
\* slice the code gets is any ordering of this set
GetByResource(repo, resource) == {x \in repo : x.resource = resource}

\* handleCreateRule: ids are "rule-<UnixNano>", distinct for distinct calls
CreateRateLimitRule(repo, resource, limit, window, algorithm) ==
    RuleRepoSave(repo, RateLimitRule(Cardinality(repo) + 1, resource, limit, window,
                                     algorithm))

\* the three rate-limit rules setupDefaultConfiguration installs
SeedRateLimitRules ==
    CreateRateLimitRule(
        CreateRateLimitRule(
            CreateRateLimitRule({}, ResApi, ApiLimit, Minute, AlgSlidingWindow),
            ResLogin, LoginLimit, LoginWindowMinutes * Minute, AlgFixedWindow),
        ResUpload, UploadLimit, Hour, AlgSlidingWindow)

(***************************************************************************)
(* Rule engine: values, conditions, rules                                  *)
(***************************************************************************)
\* an interface{} value: its dynamic type and the payload of that type
NilVal == [kind |-> "nil", str |-> <<>>, list |-> <<>>, num |-> 0]
StrVal(s) == [kind |-> "string", str |-> s, list |-> <<>>, num |-> 0]
IntVal(n) == [kind |-> "int", str |-> <<>>, list |-> <<>>, num |-> n]
TimeVal(t) == [kind |-> "time", str |-> <<>>, list |-> <<>>, num |-> t]
\* []interface{} of strings
ListVal(l) == [kind |-> "list", str |-> <<>>, list |-> l, num |-> 0]

\* Go's == on two interface values of comparable dynamic types: same dynamic
\* type and same value (the contexts of this model never hold a slice)
ValueEq(a, b) ==
    /\ a.kind = b.kind
    /\ a.kind # "list"
    /\ a.str = b.str
    /\ a.num = b.num

RuleCondition(field, operator, value) ==
    [field |-> field, operator |-> operator, value |-> value]

\* Parameters: the keys applyDynamicRateLimiting reads; NilVal = key absent
RuleAction(type, limit, window, algorithm) ==
    [type |-> type, limit |-> limit, window |-> window, algorithm |-> algorithm]

Rule(id, type, priority, enabled, conditions, actions) ==
    [id |-> id, type |-> type, priority |-> priority, enabled |-> enabled,
     conditions |-> conditions, actions |-> actions]

RuleEvaluationContext(clientID, resource, ipAddress, userAgent, now, metadata, requestData) ==
    [clientID |-> clientID, resource |-> resource, ipAddress |-> ipAddress,
     userAgent |-> userAgent, timestamp |-> now, metadata |-> metadata,
     requestData |-> requestData]

\* an empty map[string]...
EmptyMap == [x \in {} |-> NilVal]

RECURSIVE findSubstringFrom(_, _, _)
findSubstringFrom(str, substr, i) ==
    IF i > Len(str) - Len(substr) THEN -1
    ELSE IF SubSeq(str, i + 1, i + Len(substr)) = substr THEN i
    ELSE findSubstringFrom(str, substr, i + 1)

findSubstring(str, substr) ==
    IF Len(substr) = 0 THEN 0
    ELSE IF Len(substr) > Len(str) THEN -1
    ELSE findSubstringFrom(str, substr, 0)

\* containsString that takes a match at index 0 for no match
containsStringNotAtStart(str, substr) ==
    Len(str) >= Len(substr) /\ str # substr /\ findSubstring(str, substr) > 0

containsString(str, substr) ==
    Len(str) >= Len(substr) /\ str # substr /\ findSubstring(str, substr) # -1

IsNumber(v) == v.kind \in {"int", "float"}

\* ok is declared and never assigned, so the function returns 0 before it
\* ever compares
compareNumbers(a, b) ==
    LET ok == FALSE
    IN IF ~IsNumber(a) THEN 0
       ELSE IF ~IsNumber(b) THEN 0
       ELSE IF ~ok THEN 0
       ELSE IF a.num > b.num THEN 1
       ELSE IF a.num < b.num THEN -1
       ELSE 0

\* the switch on condition.Field: found reports whether a value was found
FieldValue(field, ctx) ==
    CASE field = "client_id" -> [found |-> TRUE, value |-> StrVal(ctx.clientID)]
      [] field = "resource" -> [found |-> TRUE, value |-> StrVal(ctx.resource)]
      [] field = "ip_address" -> [found |-> TRUE, value |-> StrVal(ctx.ipAddress)]
      [] field = "user_agent" -> [found |-> TRUE, value |-> StrVal(ctx.userAgent)]
      [] field = "timestamp" -> [found |-> TRUE, value |-> TimeVal(ctx.timestamp)]
      [] OTHER ->
           IF field \in DOMAIN ctx.metadata
           THEN [found |-> TRUE, value |-> StrVal(ctx.metadata[field])]
           ELSE IF field \in DOMAIN ctx.requestData
           THEN [found |-> TRUE, value |-> ctx.requestData[field]]
           ELSE [found |-> FALSE, value |-> NilVal]

EvalOperator(operator, fieldValue, value) ==
    CASE operator = "equals" -> ValueEq(fieldValue, value)
      [] operator = "not_equals" -> ~ValueEq(fieldValue, value)
      [] operator = "contains" ->
           /\ fieldValue.kind = "string"
           /\ value.kind = "string"
           /\ containsString(fieldValue.str, value.str)
      [] operator = "starts_with" ->
           /\ fieldValue.kind = "string"
           /\ value.kind = "string"
           /\ Len(fieldValue.str) >= Len(value.str)
           /\ SubSeq(fieldValue.str, 1, Len(value.str)) = value.str
      [] operator = "ends_with" ->
           /\ fieldValue.kind = "string"
           /\ value.kind = "string"
           /\ Len(fieldValue.str) >= Len(value.str)
           /\ SubSeq(fieldValue.str, Len(fieldValue.str) - Len(value.str) + 1,
                     Len(fieldValue.str)) = value.str
      [] operator = "in" ->
           /\ value.kind = "list"
           /\ \E i \in 1..Len(value.list) : ValueEq(fieldValue, StrVal(value.list[i]))
      [] operator = "not_in" ->
           /\ value.kind = "list"
           /\ ~\E i \in 1..Len(value.list) : ValueEq(fieldValue, StrVal(value.list[i]))
      [] operator = "greater_than" -> compareNumbers(fieldValue, value) > 0
      [] operator = "less_than" -> compareNumbers(fieldValue, value) < 0
      [] operator = "greater_equal" -> compareNumbers(fieldValue, value) >= 0
      [] operator = "less_equal" -> compareNumbers(fieldValue, value) <= 0
      [] OTHER -> FALSE

\* an evaluation that only looks at string fields
evaluateConditionStringsOnly(condition, ctx) ==
    LET fv == FieldValue(condition.field, ctx)
    IN /\ fv.found
       /\ fv.value.kind = "string"
       /\ EvalOperator(condition.operator, fv.value, condition.value)

evaluateCondition(condition, ctx) ==
    LET fv == FieldValue(condition.field, ctx)
    IN fv.found /\ EvalOperator(condition.operator, fv.value, condition.value)

EvaluateRule(rule, ctx) ==
    LET matched ==
            /\ rule.enabled
            /\ \A i \in 1..Len(rule.conditions) : evaluateCondition(rule.conditions[i], ctx)
    IN [ruleID |-> rule.id, matched |-> matched,
        actions |-> IF matched THEN rule.actions ELSE <<>>]

(***************************************************************************)
(* Rule-engine repository and engine                                       *)
(***************************************************************************)
\* r.rules[rule.ID] = rule
SaveRule(repo, rule) == {x \in repo : x.id # rule.id} \cup {rule}

GetActiveRules(repo) == {x \in repo : x.enabled}

\* what sort.Slice by "Priority >" can make of a map iterated in any order:
\* every arrangement of the rules in which priorities never increase
RECURSIVE SortedByPriority(_)
SortedByPriority(S) ==
    IF S = {} THEN {<<>>}
    ELSE UNION {{<<x>> \o t : t \in SortedByPriority(S \ {x})} :
                x \in {y \in S : \A z \in S : y.priority >= z.priority}}

\* the result lists EvaluateRules can return for a context
EvaluateRules(repo, ctx) ==
    {[i \in 1..Len(o) |-> EvaluateRule(o[i], ctx)] : o \in SortedByPriority(GetActiveRules(repo))}

IsBlockingAction(action) == action.type = "deny" \/ action.type = "block"

\* the inner loop of HasBlockingAction over the actions of one result
RECURSIVE AnyBlockingFrom(_, _)
AnyBlockingFrom(actions, j) ==
    IF j > Len(actions) THEN FALSE
    ELSE IF IsBlockingAction(actions[j]) THEN TRUE
    ELSE AnyBlockingFrom(actions, j + 1)

RECURSIVE HasBlockingActionFrom(_, _)
HasBlockingActionFrom(results, i) ==
    IF i > Len(results) THEN FALSE
    ELSE IF results[i].matched /\ AnyBlockingFrom(results[i].actions, 1) THEN TRUE
    ELSE HasBlockingActionFrom(results, i + 1)

\* HasBlockingAction that lets the highest-priority matched rule decide
HasBlockingActionFirstMatch(results) ==
    \E i \in 1..Len(results) :
        /\ results[i].matched
        /\ \A h \in 1..(i - 1) : ~results[h].matched
        /\ \E j \in 1..Len(results[i].actions) : IsBlockingAction(results[i].actions[j])

\* HasBlockingAction that does not test result.Matched
HasBlockingActionAnyResult(results) ==
    \E i \in 1..Len(results) : AnyBlockingFrom(results[i].actions, 1)

\* the outer loop returns true at the first matched result that holds a
\* blocking action, false after the last result
HasBlockingAction(results) == HasBlockingActionFrom(results, 1)

RECURSIVE SelectActions(_, _, _)
SelectActions(actions, type, j) ==
    IF j > Len(actions) THEN <<>>
    ELSE (IF actions[j].type = type THEN <<actions[j]>> ELSE <<>>)
         \o SelectActions(actions, type, j + 1)

RECURSIVE GetRateLimitActionsFrom(_, _)
GetRateLimitActionsFrom(results, i) ==
    IF i > Len(results) THEN <<>>
    ELSE (IF results[i].matched THEN SelectActions(results[i].actions, "rate_limit", 1)
          ELSE <<>>)
         \o GetRateLimitActionsFrom(results, i + 1)

GetRateLimitActions(results) == GetRateLimitActionsFrom(results, 1)

\* ids the engine gives to rules created without one ("ip-rule-<UnixNano>")
SecRuleIdPool ==
    <<"ip-rule-1", "ip-rule-2", "ip-rule-3", "ip-rule-4", "ip-rule-5", "ip-rule-6">>

\* the three security rules setupDefaultConfiguration installs
suspiciousUserAgentRule ==
    Rule("block-suspicious-agents", "blacklist", BlacklistPriority, TRUE,
         <<RuleCondition("user_agent", "contains", StrVal(StrBot))>>,
         <<RuleAction("deny", NilVal, NilVal, NilVal)>>)

aggressiveLoginRule ==
    Rule("aggressive-login-rate-limit", "rate_limit", LoginRulePriority, TRUE,
         <<RuleCondition("resource", "equals", StrVal(ResLogin))>>,
         <<RuleAction("rate_limit", IntVal(DynLoginLimit), StrVal(StrFiveMinutes),
                      StrVal(AlgFixedWindow))>>)

whitelistRule ==
    Rule("whitelist-internal-ips", "whitelist", WhitelistPriority, TRUE,
         <<RuleCondition("ip_address", "starts_with", StrVal(StrInternalPrefix))>>,
         <<RuleAction("allow", NilVal, NilVal, NilVal)>>)

SeedSecurityRules ==
    SaveRule(SaveRule(SaveRule({}, suspiciousUserAgentRule), aggressiveLoginRule),
             whitelistRule)

\* CreateIPBasedRule(ipAddresses, "block", parameters)
IPBasedBlockRule(id, ipAddresses) ==
    Rule(id, "blacklist", IPRulePriority, TRUE,
         <<RuleCondition("ip_address", "in", ListVal(ipAddresses))>>,
         <<RuleAction("deny", NilVal, NilVal, NilVal)>>)

(***************************************************************************)
(* Read model (query side)                                                 *)
(***************************************************************************)
RateLimitStatus(exists, clientID, resource, isAllowed, requestCount, limit, remainingQuota, windowStart, windowEnd, isBlocked, blockedUntil, retryAfter) ==
    [exists |-> exists, clientID |-> clientID, resource |-> resource,
     isAllowed |-> isAllowed, requestCount |-> requestCount, limit |-> limit,
     remainingQuota |-> remainingQuota, windowStart |-> windowStart,
     windowEnd |-> windowEnd, resetTime |-> windowEnd, isBlocked |-> isBlocked,
     blockedUntil |-> blockedUntil, retryAfter |-> retryAfter]

\* no entry in the statuses map / a nil *RateLimitStatus
NoStatus ==
    RateLimitStatus(FALSE, <<>>, <<>>, FALSE, 0, 0, 0, ZeroTime, ZeroTime, FALSE,
                    ZeroTime, 0)

\* the stored status, or the default one when the key has none
GetRateLimitStatus(readModel, clientID, resource, now) ==
    LET key == AggregateID(clientID, resource)
    IN IF ~readModel[key].exists
       THEN RateLimitStatus(TRUE, clientID, resource, TRUE, 0, 0, 0, now, now + Hour,
                            FALSE, ZeroTime, 0)
       ELSE readModel[key]

\* the entry appended to a key's history for an event
RateLimitHistoryEvent(e, requestCount, limit, isBlocked) ==
    [eventID |-> e.id, eventType |-> e.type, clientID |-> e.clientID,
     resource |-> e.resource, timestamp |-> e.time, requestCount |-> requestCount,
     limit |-> limit, isBlocked |-> isBlocked]

\* float64(blocked) / float64(total), kept as the fraction it is
BlockedRate(blocked, total) == [num |-> blocked, den |-> total]

ResourceStats(resource, total, blocked, allowed, blockedRate) ==
    [resource |-> resource, totalRequests |-> total, blockedRequests |-> blocked,
     allowedRequests |-> allowed, blockedRate |-> blockedRate]

TimeSeriesDataPoint(timestamp, total, blocked, allowed) ==
    [timestamp |-> timestamp, totalRequests |-> total, blockedRequests |-> blocked,
     allowedRequests |-> allowed]

ClientStats(exists, clientID, total, blocked, allowed, resourceStats, timeSeriesData) ==
    [exists |-> exists, clientID |-> clientID, totalRequests |-> total,
     blockedRequests |-> blocked, allowedRequests |-> allowed,
     resourceStats |-> resourceStats, timeSeriesData |-> timeSeriesData]

\* no entry in the stats map
NoStats == ClientStats(FALSE, <<>>, 0, 0, 0, <<>>, <<>>)

\* the stored statistics, or the default ones when the client has none
GetClientStats(stats, clientID) ==
    IF ~stats[clientID].exists
    THEN ClientStats(TRUE, clientID, 0, 0, 0, <<>>, <<>>)
    ELSE stats[clientID]

\* index of the first resource entry for the resource, 0 when there is none
ResourceIndex(resourceStats, resource) ==
    IF \E i \in 1..Len(resourceStats) : resourceStats[i].resource = resource
    THEN CHOOSE i \in 1..Len(resourceStats) :
            /\ resourceStats[i].resource = resource
            /\ \A j \in 1..(i - 1) : resourceStats[j].resource # resource
    ELSE 0

\* index of the first data point of the minute, 0 when there is none
DataPointIndex(timeSeriesData, minute) ==
    IF \E i \in 1..Len(timeSeriesData) : timeSeriesData[i].timestamp = minute
    THEN CHOOSE i \in 1..Len(timeSeriesData) :
            /\ timeSeriesData[i].timestamp = minute
            /\ \A j \in 1..(i - 1) : timeSeriesData[j].timestamp # minute
    ELSE 0

\* one more request in every counter it belongs to
updateClientStats(stats, clientID, resource, allowed, now) ==
    LET st == IF stats[clientID].exists THEN stats[clientID]
              ELSE ClientStats(TRUE, clientID, 0, 0, 0, <<>>, <<>>)
        a == IF allowed THEN 1 ELSE 0
        b == IF allowed THEN 0 ELSE 1
        ri == ResourceIndex(st.resourceStats, resource)
        rs0 == IF ri = 0
               THEN Append(st.resourceStats, ResourceStats(resource, 0, 0, 0, BlockedRate(0, 0)))
               ELSE st.resourceStats
        rj == IF ri = 0 THEN Len(rs0) ELSE ri
        rs1 == [rs0 EXCEPT ![rj] =
                   ResourceStats(resource, @.totalRequests + 1, @.blockedRequests + b,
                                 @.allowedRequests + a,
                                 BlockedRate(@.blockedRequests + b, @.totalRequests + 1))]
        minute == Truncate(now, Minute)
        di == DataPointIndex(st.timeSeriesData, minute)
        ts0 == IF di = 0
               THEN Append(st.timeSeriesData, TimeSeriesDataPoint(minute, 0, 0, 0))
               ELSE st.timeSeriesData
        dj == IF di = 0 THEN Len(ts0) ELSE di
        ts1 == [ts0 EXCEPT ![dj] =
                   TimeSeriesDataPoint(minute, @.totalRequests + 1, @.blockedRequests + b,
                                       @.allowedRequests + a)]
    IN [stats EXCEPT ![clientID] =
           ClientStats(TRUE, clientID, st.totalRequests + 1, st.blockedRequests + b,
                       st.allowedRequests + a, rs1, ts1)]

\* the read model as one value: the three maps of InMemoryReadModel
ReadModel(statuses, history, stats) ==
    [statuses |-> statuses, history |-> history, stats |-> stats]

updateFromRateLimitApplied(rm, e, now) ==
    LET key == AggregateID(e.clientID, e.resource)
    IN ReadModel(
          [rm.statuses EXCEPT ![key] =
              RateLimitStatus(TRUE, e.clientID, e.resource, TRUE, e.requestCount, e.limit,
                              e.remainingQuota, e.windowStart, e.windowEnd, FALSE,
                              ZeroTime, 0)],
          [rm.history EXCEPT ![key] =
              Append(@, RateLimitHistoryEvent(e, e.requestCount, e.limit, FALSE))],
          updateClientStats(rm.stats, e.clientID, e.resource, TRUE, now))

\* int(time.Until(blockedUntil).Seconds()), not below 0
RetryAfter(blockedUntil, now) == IF blockedUntil - now < 0 THEN 0 ELSE blockedUntil - now

updateFromRateLimitExceeded(rm, e, now) ==
    LET key == AggregateID(e.clientID, e.resource)
    IN ReadModel(
          [rm.statuses EXCEPT ![key] =
              RateLimitStatus(TRUE, e.clientID, e.resource, FALSE, e.requestCount, e.limit,
                              0, e.windowStart, e.windowEnd, TRUE, e.blockedUntil,
                              RetryAfter(e.blockedUntil, now))],
          [rm.history EXCEPT ![key] =
              Append(@, RateLimitHistoryEvent(e, e.requestCount, e.limit, TRUE))],
          updateClientStats(rm.stats, e.clientID, e.resource, FALSE, now))

\* a reset that counts as one more allowed request
updateFromWindowResetCounted(rm, e, now) ==
    [rm EXCEPT !.stats = updateClientStats(rm.stats, e.clientID, e.resource, TRUE, now)]

updateFromWindowReset(rm, e, now) ==
    LET key == AggregateID(e.clientID, e.resource)
    IN ReadModel(
          IF rm.statuses[key].exists
          THEN [rm.statuses EXCEPT ![key] =
                   [@ EXCEPT !.requestCount = 0,
                             !.remainingQuota = rm.statuses[key].limit,
                             !.windowStart = e.windowStart, !.isBlocked = FALSE,
                             !.blockedUntil = ZeroTime, !.retryAfter = 0]]
          ELSE rm.statuses,
          [rm.history EXCEPT ![key] = Append(@, RateLimitHistoryEvent(e, 0, 0, FALSE))],
          rm.stats)

\* an event of no known type is an error and changes nothing
UpdateFromEvent(rm, e, now) ==
    CASE e.type = "RateLimitApplied" -> updateFromRateLimitApplied(rm, e, now)
      [] e.type = "RateLimitExceeded" -> updateFromRateLimitExceeded(rm, e, now)
      [] e.type = "RateLimitWindowReset" -> updateFromWindowReset(rm, e, now)
      [] OTHER -> rm

(***************************************************************************)
(* Event bus                                                               *)
(***************************************************************************)
\* make(chan domain.Event, 100)
ChannelCapacity == 100

\* the keys of the subscribers map that the model uses
Topics == {"RateLimitApplied", "RateLimitExceeded", "RateLimitWindowReset", "*"}

NewEventBus == [t \in Topics |-> <<>>]

\* a new empty channel at the end of the topic's list
Subscribe(subscribers, eventType) ==
    [subscribers EXCEPT ![eventType] = Append(@, <<>>)]

TrySendToFront(ch, event) == IF Len(ch) < ChannelCapacity THEN <<event>> \o ch ELSE ch

\* select { case ch <- event: default: }
TrySend(ch, event) == IF Len(ch) < ChannelCapacity THEN Append(ch, event) ELSE ch

SendToAll(channels, event) == [i \in 1..Len(channels) |-> TrySend(channels[i], event)]

\* first the subscribers of the event's type, then the subscribers of "*"
Publish(subscribers, event) ==
    LET typed == IF event.type \in Topics
                 THEN [subscribers EXCEPT ![event.type] = SendToAll(@, event)]
                 ELSE subscribers
    IN [typed EXCEPT !["*"] = SendToAll(@, event)]

(***************************************************************************)
(* Command handler                                                         *)
(***************************************************************************)
\* lines 93-131 of handleApplyRateLimit: the event the command decides on
DecideEvent(aggregate, rule, now, clientID, resource, id) ==
    IF CanMakeRequest(aggregate, rule, now)
    THEN RateLimitAppliedEvent(id, now, clientID, resource, aggregate.version + 1,
                               Truncate(now, rule.window),
                               Truncate(now, rule.window) + rule.window,
                               aggregate.requestCount + 1, rule.limit,
                               rule.limit - (aggregate.requestCount + 1))
    ELSE RateLimitExceededEvent(id, now, clientID, resource, aggregate.version + 1,
                                aggregate.requestCount + 1, rule.limit,
                                aggregate.windowStart, aggregate.windowEnd,
                                aggregate.windowEnd)

\* the handler without the test for an empty rule list: it decides with a
\* rule of its own
handleApplyRateLimitDefaultRule(store, repo, clientID, resource, now, id) ==
    LET aggregateID == AggregateID(clientID, resource)
        aggregate == Rehydrate(clientID, resource, GetEvents(store, aggregateID))
        rs == GetByResource(repo, resource) \cup
              {RateLimitRule(<<"default">>, resource, 1, Second, AlgFixedWindow)}
    IN {SaveEvents(store, aggregateID,
                   <<DecideEvent(aggregate, rule, now, clientID, resource, id)>>,
                   aggregate.version) : rule \in rs}

\* the whole handler run without interruption: every outcome it can have
\* (rules[0] is any rule of the resource)
handleApplyRateLimit(store, repo, clientID, resource, now, id) ==
    LET aggregateID == AggregateID(clientID, resource)
        aggregate == Rehydrate(clientID, resource, GetEvents(store, aggregateID))
        rs == GetByResource(repo, resource)
    IN IF rs = {}
       THEN {[err |-> "norules", store |-> store]}
       ELSE {SaveEvents(store, aggregateID,
                        <<DecideEvent(aggregate, rule, now, clientID, resource, id)>>,
                        aggregate.version) : rule \in rs}

\* a reset that expects the stream as it stands and still writes Version 1
handleResetRateLimitAtEnd(store, clientID, resource, now, id) ==
    SaveEvents(store, AggregateID(clientID, resource),
               <<RateLimitWindowResetEvent(id, now, clientID, resource, 1, now)>>,
               Len(store[AggregateID(clientID, resource)]))

\* a reset that loads the stream first and writes the next version
handleResetRateLimitNextVersion(store, clientID, resource, now, id) ==
    SaveEvents(store, AggregateID(clientID, resource),
               <<RateLimitWindowResetEvent(id, now, clientID, resource,
                                           Len(store[AggregateID(clientID, resource)]) + 1, now)>>,
               Len(store[AggregateID(clientID, resource)]))

\* handleResetRateLimit: Version 1, expectedVersion 0
handleResetRateLimit(store, clientID, resource, now, id) ==
    SaveEvents(store, AggregateID(clientID, resource),
               <<RateLimitWindowResetEvent(id, now, clientID, resource, 1, now)>>, 0)

(***************************************************************************)
(* Rate limiter service                                                    *)
(***************************************************************************)
\* CheckRateLimit without the early return for a blocked status
CheckRateLimitAlwaysApply(store, repo, readModel, clientID, resource, now, id) ==
    {IF o.err # "ok"
     THEN [err |-> o.err, store |-> o.store, status |-> NoStatus]
     ELSE [err |-> "ok", store |-> o.store,
           status |-> GetRateLimitStatus(readModel, clientID, resource, now)] :
     o \in handleApplyRateLimit(store, repo, clientID, resource, now, id)}

\* every outcome of CheckRateLimit: error, event store afterwards, status returned
CheckRateLimit(store, repo, readModel, clientID, resource, now, id) ==
    LET currentStatus == GetRateLimitStatus(readModel, clientID, resource, now)
    IN IF currentStatus.isBlocked /\ now < currentStatus.blockedUntil
       THEN {[err |-> "ok", store |-> store, status |-> currentStatus]}
       ELSE {IF o.err # "ok"
             THEN [err |-> o.err, store |-> o.store, status |-> NoStatus]
             ELSE [err |-> "ok", store |-> o.store,
                   status |-> GetRateLimitStatus(readModel, clientID, resource, now)] :
             o \in handleApplyRateLimit(store, repo, clientID, resource, now, id)}

(***************************************************************************)
(* Integrated service                                                      *)
(***************************************************************************)
IsDigit(ch) == ch \in {"0", "1", "2", "3", "4", "5", "6", "7", "8", "9"}

DigitVal(ch) ==
    CASE ch = "0" -> 0 [] ch = "1" -> 1 [] ch = "2" -> 2 [] ch = "3" -> 3
      [] ch = "4" -> 4 [] ch = "5" -> 5 [] ch = "6" -> 6 [] ch = "7" -> 7
      [] ch = "8" -> 8 [] ch = "9" -> 9

\* strconv.Atoi on an unsigned decimal string; -1 stands for an error
RECURSIVE AtoiFrom(_, _, _)
AtoiFrom(s, i, acc) ==
    IF i > Len(s) THEN acc
    ELSE IF IsDigit(s[i]) THEN AtoiFrom(s, i + 1, acc * 10 + DigitVal(s[i]))
    ELSE -1

Atoi(s) == IF s = <<>> THEN -1 ELSE AtoiFrom(s, 1, 0)

UnitSeconds(ch) == CASE ch = "s" -> Second [] ch = "m" -> Minute [] ch = "h" -> Hour

\* time.ParseDuration on strings of whole numbers with units h, m, s
\* ("5m", "1h30m", "30s"), in seconds; -1 stands for an error
RECURSIVE ParseDurationFrom(_, _, _, _)
ParseDurationFrom(s, i, num, total) ==
    IF i > Len(s) THEN (IF num = -1 THEN total ELSE -1)
    ELSE IF IsDigit(s[i])
    THEN ParseDurationFrom(s, i + 1, (IF num = -1 THEN 0 ELSE num) * 10 + DigitVal(s[i]),
                           total)
    ELSE IF num # -1 /\ s[i] \in {"s", "m", "h"}
    THEN ParseDurationFrom(s, i + 1, -1, total + num * UnitSeconds(s[i]))
    ELSE -1

ParseDuration(s) == IF s = <<>> THEN -1 ELSE ParseDurationFrom(s, 1, -1, 0)

\* the conversions of one rate_limit action's parameters
ActionLimit(action) ==
    CASE action.limit.kind \in {"int", "float"} -> action.limit.num
      [] action.limit.kind = "string" ->
           IF Atoi(action.limit.str) # -1 THEN Atoi(action.limit.str) ELSE 0
      [] OTHER -> 0

ActionWindow(action) ==
    CASE action.window.kind = "string" ->
           IF ParseDuration(action.window.str) # -1
           THEN ParseDuration(action.window.str) ELSE 0
      [] action.window.kind \in {"int", "float"} -> action.window.num * Second
      [] OTHER -> 0

ActionAlgorithm(action) ==
    IF action.algorithm.kind # "nil"
    THEN (IF action.algorithm.kind = "string" THEN action.algorithm.str ELSE <<>>)
    ELSE AlgSlidingWindow

\* applyDynamicRateLimiting: the rule repository after the loop over the actions
RECURSIVE applyDynamicRateLimiting(_, _, _, _)
applyDynamicRateLimiting(repo, actions, i, resource) ==
    IF i > Len(actions) THEN repo
    ELSE LET action == actions[i]
             valid == /\ action.type = "rate_limit"
                      /\ action.limit.kind # "nil"
                      /\ action.window.kind # "nil"
                      /\ ActionLimit(action) > 0
                      /\ ActionWindow(action) > 0
         IN applyDynamicRateLimiting(
                IF valid
                THEN CreateRateLimitRule(repo, resource, ActionLimit(action),
                                         ActionWindow(action), ActionAlgorithm(action))
                ELSE repo,
                actions, i + 1, resource)

RECURSIVE FirstBlockingFrom(_, _)
FirstBlockingFrom(results, i) ==
    IF i > Len(results) THEN ""
    ELSE IF /\ results[i].matched
            /\ \E j \in 1..Len(results[i].actions) : IsBlockingAction(results[i].actions[j])
    THEN results[i].ruleID
    ELSE FirstBlockingFrom(results, i + 1)

\* getFirstBlockingRuleID that keeps the last blocking rule it meets
RECURSIVE LastBlockingFrom(_, _)
LastBlockingFrom(results, i) ==
    IF i < 1 THEN ""
    ELSE IF /\ results[i].matched
            /\ \E j \in 1..Len(results[i].actions) : IsBlockingAction(results[i].actions[j])
    THEN results[i].ruleID
    ELSE LastBlockingFrom(results, i - 1)

getLastBlockingRuleID(results) == LastBlockingFrom(results, Len(results))

getFirstBlockingRuleID(results) == FirstBlockingFrom(results, 1)

\* the first allow or throttle action of the matched results, in order
RECURSIVE ReasonFromActions(_, _)
ReasonFromActions(actions, j) ==
    IF j > Len(actions) THEN ""
    ELSE IF actions[j].type = "allow" THEN "allowed by rule"
    ELSE IF actions[j].type = "throttle" THEN "throttled by rule"
    ELSE ReasonFromActions(actions, j + 1)

RECURSIVE ReasonFromResults(_, _)
ReasonFromResults(results, i) ==
    IF i > Len(results) THEN "allowed"
    ELSE IF results[i].matched /\ ReasonFromActions(results[i].actions, 1) # ""
    THEN ReasonFromActions(results[i].actions, 1)
    ELSE ReasonFromResults(results, i + 1)

determineReason(rateLimitStatus, ruleResults) ==
    IF ~rateLimitStatus.isAllowed THEN "rate limited"
    ELSE ReasonFromResults(ruleResults, 1)

(***************************************************************************)
(* State                                                                   *)
(***************************************************************************)
VARIABLES
    events,     \* InMemoryEventStore.events: aggregate id -> stream
    rules,      \* rate-limit InMemoryRuleRepository.rules
    secRules,   \* rule-engine InMemoryRuleRepository.rules
    statuses,   \* InMemoryReadModel.statuses
    history,    \* InMemoryReadModel.history
    stats,      \* InMemoryReadModel.stats
    bus,        \* EventBus.subscribers: topic -> channels, each a queue of events
    pub,        \* the caller of EventBus.Publish: where its loops stand
    now,        \* the wall clock
    pc,         \* per caller: where its handleApplyRateLimit stands
    cmd,        \* per caller: the ApplyRateLimit command it runs, and which call of
                \* SaveEvents of this run of the handler is the next or last one
    agg,        \* per caller: the aggregate it rehydrated
    pending,    \* per caller: the event it decided on (newEvents)
    result,     \* per caller: what its last handleApplyRateLimit returned
    resp        \* the last answer of a service call

vars == <<events, rules, secRules, statuses, history, stats, bus, pub, now, pc, cmd, agg, pending, result, resp>>

NoCommand == [clientID |-> <<>>, resource |-> <<>>, attempt |-> 0]

\* a caller that is not inside the handler holds no aggregate
NoAggregate == NewRateLimitAggregate(<<>>, <<>>)

Response(op, kind, clientID, resource, ipAddress, userAgent, allowed, reason, ruleResults, status, blockingRuleID) ==
    [op |-> op, kind |-> kind, clientID |-> clientID, resource |-> resource,
     ipAddress |-> ipAddress, userAgent |-> userAgent,
     allowed |-> allowed, reason |-> reason, ruleResults |-> ruleResults,
     status |-> status, blockingRuleID |-> blockingRuleID]

NoResponse == Response("none", "none", <<>>, <<>>, <<>>, <<>>, FALSE, "", <<>>,
                       NoStatus, "")

\* nobody is inside EventBus.Publish
NoPublisher == [pc |-> "idle", event |-> NoEvent, i |-> 0, taken |-> <<>>]

\* the state main() reaches before it serves requests
Init ==
    /\ events = [k \in Keys |-> <<>>]
    /\ rules = SeedRateLimitRules
    /\ secRules = SeedSecurityRules
    /\ statuses = [k \in Keys |-> NoStatus]
    /\ history = [k \in Keys |-> <<>>]
    /\ stats = [c \in Clients |-> NoStats]
    /\ bus = Subscribe(NewEventBus, "*")
    /\ pub = NoPublisher
    /\ now = 0
    /\ pc = [p \in Procs |-> "idle"]
    /\ cmd = [p \in Procs |-> NoCommand]
    /\ agg = [p \in Procs |-> NoAggregate]
    /\ pending = [p \in Procs |-> NoEvent]
    /\ result = [p \in Procs |-> "none"]
    /\ resp = NoResponse

(***************************************************************************)
(* Actions                                                                 *)
(***************************************************************************)
\* the number of events in the store, which the model caps at MaxEvents
RECURSIVE EventCount(_, _)
EventCount(store, ks) ==
    IF ks = {} THEN 0
    ELSE LET k == CHOOSE x \in ks : TRUE
         IN Len(store[k]) + EventCount(store, ks \ {k})

TotalEvents == EventCount(events, DOMAIN events)

\* time passes
Tick ==
    /\ now < MaxTime
    /\ now' = now + 1
    /\ UNCHANGED <<events, rules, secRules, statuses, history, stats, bus, pub, pc, cmd, agg, pending, result, resp>>

\* RateLimiterService.CreateRule -> handleCreateRule
CreateRule(resource, limit, window) ==
    /\ Cardinality(rules) < MaxRules
    /\ rules' = CreateRateLimitRule(rules, resource, limit, window, AlgSlidingWindow)
    /\ UNCHANGED <<events, secRules, statuses, history, stats, bus, pub, now, pc, cmd, agg, pending, result, resp>>

\* the block-ips endpoint: CreateIPBasedRule(ips, "block") -> RuleEngine.CreateRule
BlockIPs(ipAddresses) ==
    /\ Cardinality(secRules) < MaxSecRules
    /\ secRules' = SaveRule(secRules,
                            IPBasedBlockRule(SecRuleIdPool[Cardinality(secRules) + 1],
                                             ipAddresses))
    /\ UNCHANGED <<events, rules, statuses, history, stats, bus, pub, now, pc, cmd, agg, pending, result, resp>>

\* handleApplyRateLimit, lines 64-76: GetEvents and rehydration
LoadAggregate(p, clientID, resource) ==
    /\ cmd' = [cmd EXCEPT ![p] = [clientID |-> clientID, resource |-> resource,
                                attempt |-> 1]]
    /\ agg' = [agg EXCEPT ![p] =
                  Rehydrate(clientID, resource,
                            GetEvents(events, AggregateID(clientID, resource)))]
    /\ pc' = [pc EXCEPT ![p] = "loaded"]

\* a caller issues a new ApplyRateLimit command
ApplyLoad(p, clientID, resource) ==
    /\ pc[p] = "idle"
    /\ TotalEvents < MaxEvents
    /\ LoadAggregate(p, clientID, resource)
    /\ pending' = [pending EXCEPT ![p] = NoEvent]
    /\ result' = [result EXCEPT ![p] = "none"]
    /\ UNCHANGED <<events, rules, secRules, statuses, history, stats, bus, pub, now, resp>>

\* a caller whose command met a concurrency conflict issues it again
ApplyRetry(p) ==
    /\ pc[p] = "idle"
    /\ result[p] = "conflict"
    /\ TotalEvents < MaxEvents
    /\ LoadAggregate(p, cmd[p].clientID, cmd[p].resource)
    /\ UNCHANGED <<events, rules, secRules, statuses, history, stats, bus, pub, now, pending, result, resp>>

\* handleApplyRateLimit, lines 78-131: the rules, then the decision
ApplyDecide(p) ==
    /\ pc[p] = "loaded"
    /\ LET rs == GetByResource(rules, cmd[p].resource)
       IN IF rs = {}
          THEN /\ pc' = [pc EXCEPT ![p] = "idle"]
               /\ result' = [result EXCEPT ![p] = "norules"]
               /\ pending' = [pending EXCEPT ![p] = NoEvent]
               /\ agg' = [agg EXCEPT ![p] = NoAggregate]
          ELSE /\ \E rule \in rs :
                     pending' = [pending EXCEPT ![p] =
                         DecideEvent(agg[p], rule, now, cmd[p].clientID,
                                     cmd[p].resource, p)]
               /\ pc' = [pc EXCEPT ![p] = "decided"]
               /\ UNCHANGED <<result, agg>>
    /\ UNCHANGED <<events, rules, secRules, statuses, history, stats, bus, pub, now, cmd, resp>>

RetryAfterConflictTwice(attempt) == attempt <= 2

\* whether the handler runs the command again after a conflict at its
\* attempt-th SaveEvents: line 134 returns the error of SaveEvents as it is
RetryAfterConflict(attempt) == FALSE

\* handleApplyRateLimit, line 134: SaveEvents with the rehydrated version
ApplySave(p) ==
    /\ pc[p] = "decided"
    /\ LET key == AggregateID(cmd[p].clientID, cmd[p].resource)
           o == SaveEvents(events, key, <<pending[p]>>, agg[p].version)
       IN /\ events' = o.store
          /\ IF o.err = "conflict" /\ RetryAfterConflict(cmd[p].attempt)
             THEN /\ pc' = [pc EXCEPT ![p] = "loaded"]
                  /\ agg' = [agg EXCEPT ![p] =
                                Rehydrate(cmd[p].clientID, cmd[p].resource,
                                          GetEvents(o.store, key))]
                  /\ cmd' = [cmd EXCEPT ![p].attempt = @ + 1]
                  /\ UNCHANGED result
             ELSE /\ pc' = [pc EXCEPT ![p] = "idle"]
                  /\ agg' = [agg EXCEPT ![p] = NoAggregate]
                  /\ result' = [result EXCEPT ![p] = o.err]
                  /\ UNCHANGED cmd
    /\ UNCHANGED <<rules, secRules, statuses, history, stats, bus, pub, now, pending, resp>>

\* RateLimiterService.ResetRateLimit -> handleResetRateLimit
\* (maxEvents is the cap the model puts on the store)
ResetRateLimitCapped(clientID, resource, maxEvents) ==
    /\ LET o == handleResetRateLimit(events, clientID, resource, now, 0)
       IN /\ EventCount(o.store, DOMAIN o.store) <= maxEvents
          /\ events' = o.store
          /\ resp' = Response("ResetRateLimit", IF o.err = "ok" THEN "result" ELSE "error",
                              clientID, resource, <<>>, <<>>, FALSE, o.err, <<>>,
                              NoStatus, "")
    /\ UNCHANGED <<rules, secRules, statuses, history, stats, bus, pub, now, pc, cmd, agg, pending, result>>

ResetRateLimit(clientID, resource) == ResetRateLimitCapped(clientID, resource, MaxEvents)

\* RateLimitCommandHandler.Handle(ApplyRateLimitCommand) by a single caller:
\* handleApplyRateLimit from GetEvents to SaveEvents with nothing in between
ApplyRateLimit(clientID, resource) ==
    /\ TotalEvents < MaxStream
    /\ \E o \in handleApplyRateLimit(events, rules, clientID, resource, now, 0) :
          /\ events' = o.store
          /\ resp' = Response("ApplyRateLimit", IF o.err = "ok" THEN "result" ELSE "error",
                              clientID, resource, <<>>, <<>>, FALSE, o.err, <<>>,
                              NoStatus, "")
    /\ UNCHANGED <<rules, secRules, statuses, history, stats, bus, pub, now, pc, cmd, agg, pending, result>>

\* RateLimiterService.CheckRateLimit called on its own (the check endpoint)
\* (maxEvents is the cap the model puts on the store)
CheckRateLimitRequestCapped(clientID, resource, maxEvents) ==
    /\ \E o \in CheckRateLimit(events, rules, statuses, clientID, resource, now, 0) :
          /\ EventCount(o.store, DOMAIN o.store) <= maxEvents
          /\ events' = o.store
          /\ resp' = Response("CheckRateLimit", IF o.err = "ok" THEN "result" ELSE "error",
                              clientID, resource, <<>>, <<>>,
                              o.status.isAllowed, o.err, <<>>, o.status, "")
    /\ UNCHANGED <<rules, secRules, statuses, history, stats, bus, pub, now, pc, cmd, agg, pending, result>>

CheckRateLimitRequest(clientID, resource) ==
    CheckRateLimitRequestCapped(clientID, resource, MaxEvents)

\* the number of entries in the read model's history
RECURSIVE HistoryCount(_, _)
HistoryCount(hist, ks) ==
    IF ks = {} THEN 0
    ELSE LET k == CHOOSE x \in ks : TRUE
         IN Len(hist[k]) + HistoryCount(hist, ks \ {k})

\* EventBus.Publish called with an event of the store (the handlers
\* themselves never call it)
PublishStored(k, i) ==
    /\ i \in 1..Len(events[k])
    /\ \A j \in 1..Len(bus["*"]) : Len(bus["*"][j]) < MaxQueued
    /\ bus' = Publish(bus, events[k][i])
    /\ UNCHANGED <<events, rules, secRules, statuses, history, stats, pub, now, pc, cmd,
                   agg, pending, result, resp>>

\* setupEventProjection: the loop body for the next event of its channel,
\* the first channel subscribed to "*"
Project ==
    /\ Len(bus["*"]) >= 1
    /\ Len(bus["*"][1]) >= 1
    /\ HistoryCount(history, DOMAIN history) < MaxHistory
    /\ LET rm == UpdateFromEvent(ReadModel(statuses, history, stats),
                                 Head(bus["*"][1]), now)
       IN /\ statuses' = rm.statuses
          /\ history' = rm.history
          /\ stats' = rm.stats
    /\ bus' = [bus EXCEPT !["*"][1] = Tail(@)]
    /\ UNCHANGED <<events, rules, secRules, pub, now, pc, cmd, agg, pending, result, resp>>

(***************************************************************************)
(* EventBus next to its callers: Publish one select at a time, so that     *)
(* receivers run between two sends of the same call                        *)
(***************************************************************************)
MaxSubscribers == 2

\* the event the publisher hands to the bus
BusEvent == RateLimitAppliedEvent("e", 0, ClientU, ResData, 1, 0, 1, 1, 1, 0)

RECURSIVE SubscriberCount(_, _)
SubscriberCount(subscribers, ts) ==
    IF ts = {} THEN 0
    ELSE LET t == CHOOSE x \in ts : TRUE
         IN Len(subscribers[t]) + SubscriberCount(subscribers, ts \ {t})

\* the list the publisher's loop ranges over
PublishTopic(publisher) == IF publisher.pc = "typed" THEN publisher.event.type ELSE "*"

PublishChannels(subscribers, publisher) ==
    IF PublishTopic(publisher) \in Topics THEN subscribers[PublishTopic(publisher)] ELSE <<>>

\* the branch the select takes on a channel
SelectBranch(ch) == IF Len(ch) < ChannelCapacity THEN "sent" ELSE "default"

NextChannelStopAtFull(i, channels, branch) ==
    IF branch = "default" THEN Len(channels) + 1 ELSE i + 1

\* for _, ch := range channels: after either branch the loop goes on with
\* the next channel
NextChannel(i, channels, branch) == i + 1

\* EventBus.Subscribe, under the write lock: no Publish is in progress
BusSubscribe(eventType) ==
    /\ pub.pc = "idle"
    /\ SubscriberCount(bus, Topics) < MaxSubscribers
    /\ bus' = Subscribe(bus, eventType)
    /\ UNCHANGED <<events, rules, secRules, statuses, history, stats, pub, now, pc, cmd,
                   agg, pending, result, resp>>

\* EventBus.Publish takes the read lock and starts with the subscribers of
\* the event's type
PublishBegin(event) ==
    /\ pub.pc = "idle"
    /\ pub' = [pc |-> "typed", event |-> event, i |-> 1, taken |-> <<>>]
    /\ UNCHANGED <<events, rules, secRules, statuses, history, stats, bus, now, pc, cmd,
                   agg, pending, result, resp>>

\* one iteration of a loop of EventBus.Publish, or the end of the loop: after
\* the subscribers of the type come the subscribers of "*", then the return
PublishSelect ==
    /\ pub.pc \in {"typed", "all"}
    /\ LET topic == PublishTopic(pub)
           channels == PublishChannels(bus, pub)
       IN IF pub.i <= Len(channels)
          THEN /\ bus' = [bus EXCEPT ![topic][pub.i] = TrySend(@, pub.event)]
               /\ pub' = [pub EXCEPT
                            !.i = NextChannel(pub.i, channels, SelectBranch(channels[pub.i])),
                            !.taken = Append(@, SelectBranch(channels[pub.i]))]
          ELSE /\ bus' = bus
               /\ pub' = IF pub.pc = "typed"
                         THEN [pub EXCEPT !.pc = "all", !.i = 1]
                         ELSE NoPublisher
    /\ UNCHANGED <<events, rules, secRules, statuses, history, stats, now, pc, cmd, agg,
                   pending, result, resp>>

\* a subscriber other than the projection takes the next event of its channel
Receive(eventType, j) ==
    /\ j \in 1..Len(bus[eventType])
    /\ <<eventType, j>> # <<"*", 1>>
    /\ Len(bus[eventType][j]) >= 1
    /\ bus' = [bus EXCEPT ![eventType][j] = Tail(@)]
    /\ UNCHANGED <<events, rules, secRules, statuses, history, stats, pub, now, pc, cmd,
                   agg, pending, result, resp>>

\* IntegratedRateLimiterService.CheckRequestWithRules
\* (maxRules and maxEvents are the caps the model puts on the repository and
\* on the store)
CheckRequestWithRulesCapped(clientID, resource, ipAddress, userAgent, maxRules, maxEvents) ==
    LET evalCtx == RuleEvaluationContext(clientID, resource, ipAddress, userAgent, now,
                                         EmptyMap, EmptyMap)
    IN \E ruleResults \in EvaluateRules(secRules, evalCtx) :
          IF HasBlockingAction(ruleResults)
          THEN /\ resp' = Response("CheckRequestWithRules", "result", clientID, resource,
                                   ipAddress, userAgent, FALSE, "blocked by rule",
                                   ruleResults, NoStatus,
                                   getFirstBlockingRuleID(ruleResults))
               /\ UNCHANGED <<events, rules, secRules, statuses, history, stats, bus, pub, now, pc, cmd, agg,
                              pending, result>>
          ELSE LET installed ==
                       applyDynamicRateLimiting(rules, GetRateLimitActions(ruleResults),
                                                1, resource)
               IN /\ Cardinality(installed) <= maxRules
                  /\ TotalEvents < maxEvents
                  /\ rules' = installed
                  /\ \E o \in CheckRateLimit(events, installed, statuses, clientID,
                                             resource, now, 0) :
                        /\ events' = o.store
                        /\ resp' =
                             IF o.err # "ok"
                             THEN Response("CheckRequestWithRules", "error", clientID,
                                           resource, ipAddress, userAgent, FALSE,
                                           o.err, <<>>, NoStatus, "")
                             ELSE Response("CheckRequestWithRules", "result", clientID,
                                           resource, ipAddress, userAgent,
                                           o.status.isAllowed,
                                           IF ~o.status.isAllowed THEN "rate limited"
                                           ELSE determineReason(o.status, ruleResults),
                                           ruleResults, o.status, "")
                  /\ UNCHANGED <<secRules, statuses, history, stats, bus, pub, now, pc, cmd, agg, pending, result>>

CheckRequestWithRules(clientID, resource, ipAddress, userAgent) ==
    CheckRequestWithRulesCapped(clientID, resource, ipAddress, userAgent, MaxRules, MaxEvents)

(***************************************************************************)
(* The rate-limit rule repository called directly                          *)
(***************************************************************************)
MaxRuleId == 5

\* the rules a caller saves or updates: the id of a seeded rule or a new id
RepoRulePool ==
    {RateLimitRule(id, r, l, w, AlgFixedWindow) :
        id \in 3..MaxRuleId, r \in {ResData, ResLogin}, l \in {1, 2}, w \in RuleWindows}

RepoResponse(op, resource, err) ==
    Response(op, IF err = "ok" THEN "result" ELSE "error", <<>>, resource, <<>>, <<>>,
             FALSE, err, <<>>, NoStatus, "")

\* InMemoryRuleRepository.Save
RepoSave(rule) ==
    /\ rules' = RuleRepoSave(rules, rule)
    /\ resp' = RepoResponse("SaveRule", rule.resource, "ok")
    /\ UNCHANGED <<events, secRules, statuses, history, stats, bus, pub, now, pc, cmd, agg, pending, result>>

\* InMemoryRuleRepository.Update
RepoUpdate(rule) ==
    /\ LET o == RuleRepoUpdate(rules, rule)
       IN /\ rules' = o.repo
          /\ resp' = RepoResponse("UpdateRule", rule.resource, o.err)
    /\ UNCHANGED <<events, secRules, statuses, history, stats, bus, pub, now, pc, cmd, agg, pending, result>>

\* InMemoryRuleRepository.Delete
RepoDelete(id) ==
    /\ LET o == RuleRepoDelete(rules, id)
       IN /\ rules' = o.repo
          /\ resp' = RepoResponse("DeleteRule", <<>>, o.err)
    /\ UNCHANGED <<events, secRules, statuses, history, stats, bus, pub, now, pc, cmd, agg, pending, result>>

NextRules ==
    \/ \E rule \in RepoRulePool : RepoSave(rule)
    \/ \E rule \in RepoRulePool : RepoUpdate(rule)
    \/ \E id \in 1..MaxRuleId : RepoDelete(id)

SpecRules == Init /\ [][NextRules]_vars

(***************************************************************************)
(* The rule engine called directly                                         *)
(***************************************************************************)
MaxResults == 3

DenyAction == RuleAction("deny", NilVal, NilVal, NilVal)
BlockAction == RuleAction("block", NilVal, NilVal, NilVal)
AllowAction == RuleAction("allow", NilVal, NilVal, NilVal)

\* evaluation results a caller can hand to the engine's helpers
RuleEvaluationResult(ruleID, matched, actions) ==
    [ruleID |-> ruleID, matched |-> matched, actions |-> actions]

ResultPool ==
    {RuleEvaluationResult("r", m, a) :
        m \in BOOLEAN,
        a \in {<<>>, <<DenyAction>>, <<AllowAction>>, <<AllowAction, BlockAction>>}}

ResultLists == UNION {[1..n -> ResultPool] : n \in 0..MaxResults}

EngineResponse(op, ctx, answer, results) ==
    Response(op, "result", ctx.clientID, ctx.resource, ctx.ipAddress, ctx.userAgent,
             answer, "", results, NoStatus, "")

NoContext == RuleEvaluationContext(<<>>, <<>>, <<>>, <<>>, 0, EmptyMap, EmptyMap)

\* RuleEngine.HasBlockingAction on a list of results
HasBlockingActionCall(results) ==
    /\ resp' = EngineResponse("HasBlockingAction", NoContext, HasBlockingAction(results),
                              results)
    /\ UNCHANGED <<events, rules, secRules, statuses, history, stats, bus, pub, now, pc, cmd, agg, pending, result>>

\* operands of a comparison: numbers and a string
OperandPool == {IntVal(1), IntVal(2), StrVal(<<"2">>)}

CompareOperators == {"greater_than", "less_than", "greater_equal", "less_equal"}

\* a request whose request_data holds one value under the key "size"
SizeData(v) == [f \in {"size"} |-> v]

\* value sets of an "in" or "not_in" condition
ListPool == {ListVal(<<>>), ListVal(<< <<"2">> >>), ListVal(<< <<"1">>, <<"2">> >>)}

\* the operators that come in pairs
PairedOperators == {"equals", "not_equals", "in", "not_in", "greater_than", "less_equal"}

\* the context of a request holding a under the key "size"
ConditionContext(a, timestamp) == RuleEvaluationContext(ClientU, ResData, IpExternal, UaMozilla, timestamp, EmptyMap, SizeData(a))

\* what a caller of evaluateCondition keeps: the answer, the condition and the
\* field value it was evaluated on
ConditionResponse(condition, fieldValue, ctx, answer) ==
    [op |-> "evaluateCondition", kind |-> "result", clientID |-> ctx.clientID,
     resource |-> ctx.resource, ipAddress |-> ctx.ipAddress, userAgent |-> ctx.userAgent,
     allowed |-> answer, reason |-> "", ruleResults |-> <<>>, status |-> NoStatus,
     blockingRuleID |-> "", condition |-> condition, fieldValue |-> fieldValue]

\* Rule.evaluateCondition for a condition on the request_data value
EvaluateConditionCall(operator, a, b) ==
    /\ LET ctx == ConditionContext(a, now)
           condition == RuleCondition("size", operator, b)
       IN resp' = ConditionResponse(condition, a, ctx, evaluateCondition(condition, ctx))
    /\ UNCHANGED <<events, rules, secRules, statuses, history, stats, bus, pub, now, pc, cmd, agg, pending, result>>

\* the rules an operator adds next to the seeded ones: a rule on the size of
\* the request and a rule with two conditions, enabled or not, at the
\* priority of a seeded rule or at one of their own
EngineRulePool ==
    {Rule("size-limit", "blacklist", p, en,
          <<RuleCondition("size", "greater_than", IntVal(1))>>, <<DenyAction>>) :
        p \in {LoginRulePriority, IPRulePriority}, en \in BOOLEAN}
    \cup
    {Rule("internal-data", "blacklist", p, en,
          <<RuleCondition("resource", "equals", StrVal(ResData)),
            RuleCondition("ip_address", "starts_with", StrVal(StrInternalPrefix))>>,
          <<BlockAction>>) :
        p \in {LoginRulePriority, IPRulePriority}, en \in BOOLEAN}

EngineContexts ==
    {RuleEvaluationContext(ClientU, r, ip, ua, 0, EmptyMap, d) :
        r \in {ResData, ResLogin}, ip \in IPs, ua \in UserAgents,
        d \in {EmptyMap, SizeData(IntVal(1)), SizeData(IntVal(2))}}

\* RuleEngine.CreateRule with an id given: SaveRule
EngineCreateRule(rule) ==
    /\ secRules' = SaveRule(secRules, rule)
    /\ UNCHANGED <<events, rules, statuses, history, stats, bus, pub, now, pc, cmd, agg, pending, result, resp>>

\* RuleEngine.EvaluateRules
EvaluateRulesCall(ctx) ==
    /\ \E results \in EvaluateRules(secRules, ctx) :
          resp' = EngineResponse("EvaluateRules", ctx, FALSE, results)
    /\ UNCHANGED <<events, rules, secRules, statuses, history, stats, bus, pub, now, pc, cmd, agg, pending, result>>

\* the helpers of the engine that work on a list of results
NextEngine ==
    \/ \E results \in ResultLists : HasBlockingActionCall(results)

\* an operator adding rules, and callers evaluating conditions and rules
NextEvaluation ==
    \/ \E op \in CompareOperators \cup PairedOperators, a \in OperandPool, b \in OperandPool \cup ListPool :
          EvaluateConditionCall(op, a, b)
    \/ \E rule \in EngineRulePool : EngineCreateRule(rule)
    \/ \E ctx \in EngineContexts : EvaluateRulesCall(ctx)

SpecEvaluation == Init /\ [][NextEvaluation]_vars

SpecEngine == Init /\ [][NextEngine]_vars

\* callers running commands side by side
Next ==
    \/ Tick
    \/ \E r \in RuleResources, l \in RuleLimits, w \in RuleWindows : CreateRule(r, l, w)
    \/ \E p \in Procs, c \in Clients, r \in CommandResources : ApplyLoad(p, c, r)
    \/ \E p \in Procs : ApplyRetry(p)
    \/ \E p \in Procs : ApplyDecide(p)
    \/ \E p \in Procs : ApplySave(p)
    \/ \E c \in Clients, r \in Resources : ResetRateLimit(c, r)

Spec == Init /\ [][Next]_vars

\* requests served one after the other
NextService ==
    \/ Tick
    \/ \E r \in RuleResources, l \in RuleLimits, w \in RuleWindows : CreateRule(r, l, w)
    \/ \E ip \in IPs : BlockIPs(<<ip>>)
    \/ \E c \in Clients, r \in Resources : ResetRateLimit(c, r)
    \/ \E c \in Clients, r \in Resources : CheckRateLimitRequest(c, r)
    \/ \E c \in Clients, r \in Resources, ip \in IPs, ua \in UserAgents :
          CheckRequestWithRules(c, r, ip, ua)

SpecService == Init /\ [][NextService]_vars

\* one client sending requests for the login resource from an address and
\* with a user agent that no blocking rule matches
LoginRequest ==
    /\ Len(events[AggregateID(ClientU, ResLogin)]) < MaxLoginRequests
    /\ CheckRequestWithRulesCapped(ClientU, ResLogin, IpExternal, UaMozilla,
                                   Cardinality(SeedRateLimitRules) + MaxLoginRequests,
                                   MaxLoginRequests)

NextLogin ==
    \/ Tick
    \/ LoginRequest

SpecLogin == Init /\ [][NextLogin]_vars

\* one caller at a time sending commands to the command handler
NextAggregate ==
    \/ Tick
    \/ \E r \in RuleResources, l \in RuleLimits, w \in RuleWindows : CreateRule(r, l, w)
    \/ \E c \in Clients, r \in CommandResources : ApplyRateLimit(c, r)
    \/ \E c \in Clients, r \in CommandResources : ResetRateLimitCapped(c, r, MaxStream)

SpecAggregate == Init /\ [][NextAggregate]_vars

\* the service next to a publisher that feeds stored events to the bus, and
\* the projection that consumes them
NextProjection ==
    \/ Tick
    \/ \E r \in RuleResources, l \in RuleLimits, w \in RuleWindows : CreateRule(r, l, w)
    \/ \E c \in Clients, r \in CommandResources :
          CheckRateLimitRequestCapped(c, r, MaxEvents + 1)
    \/ \E k \in Keys, i \in 1..(MaxEvents + 1) : PublishStored(k, i)
    \/ Project

SpecProjection == Init /\ [][NextProjection]_vars

(***************************************************************************)
(* Properties of the event store and of the command handlers               *)
(***************************************************************************)
KeyOf(p) == AggregateID(cmd[p].clientID, cmd[p].resource)

\* the caller's handleApplyRateLimit has returned from SaveEvents
Finished(p) == pc[p] = "idle" /\ result[p] \in {"ok", "conflict"}

\* two callers decided on the same stream at the same version: both
\* rehydrated it before either saved
Raced(p, q) ==
    /\ p # q
    /\ Finished(p) /\ Finished(q)
    /\ KeyOf(p) = KeyOf(q)
    /\ pending[p].version = pending[q].version

\* the caller lost a race and has rehydrated again
Retrying(q) == pc[q] = "loaded" /\ result[q] = "conflict"

\* C1: of two ApplyRateLimit commands on one key that both rehydrated at
\* version v before either saved, at most one saves (both fail only when a
\* third writer took position v+1); the winner's event is the one at
\* position v+1; the loser's event is nowhere in the stream, and when the
\* loser runs again the stream it rehydrates holds the winner's event.
C1_OneWinner ==
    /\ \A p \in Procs, q \in Procs :
          Raced(p, q) =>
             LET k == KeyOf(p)
                 n == pending[p].version
             IN /\ ~(result[p] = "ok" /\ result[q] = "ok")
                /\ Len(events[k]) >= n
                /\ result[p] = "ok" => events[k][n] = pending[p]
                /\ result[p] = "conflict" =>
                      \A i \in 1..Len(events[k]) : events[k][i] # pending[p]
                /\ (result[p] = "conflict" /\ result[q] = "conflict") =>
                      events[k][n].id \notin {p, q}
    /\ \A q \in Procs :
          Retrying(q) =>
             /\ agg[q].version >= pending[q].version
             /\ agg[q].events[pending[q].version].id # q
             /\ \A p \in Procs \ {q} :
                   (/\ Finished(p) /\ result[p] = "ok"
                    /\ KeyOf(p) = KeyOf(q)
                    /\ pending[p].version = pending[q].version)
                   => agg[q].events[pending[q].version] = pending[p]

\* one caller won, the other lost and has rehydrated the winner's event
C1_Witness ==
    \E p \in Procs, q \in Procs :
        /\ p # q
        /\ Finished(p) /\ result[p] = "ok"
        /\ Retrying(q)
        /\ KeyOf(p) = KeyOf(q)
        /\ pending[p].version = pending[q].version
        /\ Len(events[KeyOf(p)]) = pending[p].version

\* C2: SaveEvents answers with a concurrency conflict exactly when the number
\* of events stored for the aggregate differs from expectedVersion, and
\* succeeds otherwise (the handlers pass the rehydrated version, the reset
\* handler passes 0).
C2_ConflictIffVersionDiffers ==
    [][/\ \A p \in Procs :
             ApplySave(p) =>
                /\ result'[p] \in {"ok", "conflict"}
                /\ (result'[p] = "conflict") <=> (Len(events[KeyOf(p)]) # agg[p].version)
       /\ \A c \in Clients, r \in Resources :
             ResetRateLimit(c, r) =>
                /\ resp'.reason \in {"ok", "conflict"}
                /\ (resp'.reason = "conflict") <=> (Len(events[AggregateID(c, r)]) # 0)
      ]_vars

\* a save was refused on a stream that had outgrown the expected version
C2_Witness ==
    \E p \in Procs :
        /\ Finished(p) /\ result[p] = "conflict"
        /\ Len(events[KeyOf(p)]) >= pending[p].version
        /\ \E q \in Procs : Finished(q) /\ result[q] = "ok"

\* C3: a SaveEvents call that fails leaves every stream as it was, and one
\* that succeeds appends the whole batch to its stream and touches no other
\* stream.
C3_AllOrNothing ==
    [][/\ \A p \in Procs :
             ApplySave(p) =>
                IF result'[p] = "conflict"
                THEN events' = events
                ELSE events' = [events EXCEPT ![KeyOf(p)] = @ \o <<pending[p]>>]
       /\ \A c \in Clients, r \in Resources :
             ResetRateLimit(c, r) =>
                IF resp'.reason = "conflict"
                THEN events' = events
                ELSE /\ Len(events'[AggregateID(c, r)]) = Len(events[AggregateID(c, r)]) + 1
                     /\ \A k \in Keys \ {AggregateID(c, r)} : events'[k] = events[k]
      ]_vars

\* a refused event is in no stream, next to a stream that did grow
C3_Witness ==
    \E p \in Procs :
        /\ Finished(p) /\ result[p] = "conflict"
        /\ \A k \in Keys : \A i \in 1..Len(events[k]) : events[k][i].id # p
        /\ Len(events[KeyOf(p)]) >= 1

\* C4: a stream only grows at its end: the event at position i stays at
\* position i unmodified, and a caller that loads a stream gets the events in
\* the order they were saved.
C4_AppendOnly ==
    [][/\ \A k \in Keys :
             /\ Len(events'[k]) >= Len(events[k])
             /\ SubSeq(events'[k], 1, Len(events[k])) = events[k]
       /\ \A p \in Procs :
             (pc[p] = "idle" /\ pc'[p] = "loaded") =>
                agg'[p].events = events[AggregateID(cmd'[p].clientID, cmd'[p].resource)]
      ]_vars

\* a stream that was appended to after its first event, by two writers
C4_Witness ==
    \E k \in Keys :
        /\ Len(events[k]) >= 2
        /\ events[k][1].id # events[k][2].id

\* C5: whatever ApplyRateLimit and ResetRateLimit commands have run, the
\* aggregate rehydrated from a key's stream has a version equal to the number
\* of events persisted for the key.
C5_VersionIsEventCount ==
    /\ \A c \in Clients, r \in Resources :
          Rehydrate(c, r, GetEvents(events, AggregateID(c, r))).version
             = Len(events[AggregateID(c, r)])
    /\ \A p \in Procs :
          pc[p] \in {"loaded", "decided"} => agg[p].version = Len(agg[p].events)

\* a stream that holds a reset followed by a request
C5_Witness ==
    \E k \in Keys :
        /\ Len(events[k]) >= 2
        /\ events[k][1].type = "RateLimitWindowReset"
        /\ events[k][2].type # "RateLimitWindowReset"

(***************************************************************************)
(* Counting inside a window                                                *)
(***************************************************************************)
Min(a, b) == IF a < b THEN a ELSE b
Max(a, b) == IF a > b THEN a ELSE b

\* the events of s after position j are ApplyRateLimit outcomes decided
\* against rule, all inside one window of the rule, on an aggregate that was
\* never blocked before them and whose earlier events lie in earlier windows
OneWindowRun(s, j, rule) ==
    /\ j < Len(s)
    /\ \A i \in 1..j :
          /\ s[i].type = "RateLimitApplied"
          /\ Truncate(s[i].time, rule.window) < Truncate(s[j + 1].time, rule.window)
    /\ \A i \in (j + 1)..Len(s) :
          /\ s[i].type \in {"RateLimitApplied", "RateLimitExceeded"}
          /\ s[i].limit = rule.limit
          /\ Truncate(s[i].time, rule.window) = Truncate(s[j + 1].time, rule.window)

\* C6: for an aggregate that was never blocked, after n ApplyRateLimit
\* operations inside one window against limit L the request count is
\* min(n, L), the remaining quota is max(0, L - n), and every operation past
\* the L-th produced RateLimitExceeded.
C6_CountIsMinOfRequestsAndLimit ==
    \A c \in Clients, r \in Resources :
        LET s == events[AggregateID(c, r)]
            a == Rehydrate(c, r, s)
        IN \A rule \in GetByResource(rules, r) :
              \A j \in 0..Len(s) :
                  OneWindowRun(s, j, rule) =>
                     LET n == Len(s) - j
                         L == rule.limit
                     IN /\ a.requestCount = Min(n, L)
                        /\ a.remainingQuota = Max(0, L - n)
                        /\ \A i \in (j + 1)..Len(s) :
                              (i - j > L) => s[i].type = "RateLimitExceeded"

(***************************************************************************)
(* Properties of the service calls                                         *)
(***************************************************************************)
\* C7: with a single rule (L, W) for the resource, the first L sequential
\* CheckRateLimit calls of a client inside one window are answered allowed,
\* the (L+1)-th is answered denied, and the first call after the window has
\* ended is answered allowed again.
C7_LimitEnforcedPerWindow ==
    (/\ resp.op = "CheckRateLimit" /\ resp.kind = "result"
     /\ Cardinality(GetByResource(rules, resp.resource)) = 1)
    => LET rule == CHOOSE x \in GetByResource(rules, resp.resource) : TRUE
           s == events[AggregateID(resp.clientID, resp.resource)]
           n == Len(s)
       IN /\ OneWindowRun(s, 0, rule) =>
                /\ n <= rule.limit => resp.allowed
                /\ n = rule.limit + 1 => ~resp.allowed
          /\ (/\ n >= 2
              /\ \A i \in 1..n : s[i].type \in {"RateLimitApplied", "RateLimitExceeded"}
              /\ \A i \in 1..(n - 1) :
                    Truncate(s[i].time, rule.window) < Truncate(s[n].time, rule.window))
             => resp.allowed

\* the enabled security rules that match the request and carry a deny or
\* block action
MatchedBlockingRules(clientID, resource, ipAddress, userAgent) ==
    LET evalCtx == RuleEvaluationContext(clientID, resource, ipAddress, userAgent, now,
                                         EmptyMap, EmptyMap)
    IN {rule \in GetActiveRules(secRules) :
           /\ EvaluateRule(rule, evalCtx).matched
           /\ \E j \in 1..Len(rule.actions) : IsBlockingAction(rule.actions[j])}

\* a result in the answer that matched and carries a deny or block action
BlockingResult(res) ==
    res.matched /\ \E j \in 1..Len(res.actions) : IsBlockingAction(res.actions[j])

\* the step is a CheckRequestWithRules call, and resp' is its answer
AnswersRequestWithRules ==
    /\ resp'.op = "CheckRequestWithRules"
    /\ now' = now /\ secRules' = secRules
    /\ CheckRequestWithRules(resp'.clientID, resp'.resource, resp'.ipAddress,
                             resp'.userAgent)

\* C8: every CheckRequestWithRules call in which some matched rule carries a
\* deny or block action is answered allowed = false with reason "blocked by
\* rule", whatever the priorities of the matched rules and whatever the
\* rate-limit state.
C8_BlockingRuleDenies ==
    [][(/\ AnswersRequestWithRules
        /\ MatchedBlockingRules(resp'.clientID, resp'.resource, resp'.ipAddress,
                                resp'.userAgent) # {})
       => /\ resp'.kind = "result"
          /\ resp'.allowed = FALSE
          /\ resp'.reason = "blocked by rule"
      ]_vars

\* a request denied by a priority-100 rule alone, below the matched whitelist
\* rule, for a key that has used up rate-limit quota
C8_Witness ==
    /\ resp.op = "CheckRequestWithRules"
    /\ resp.reason = "blocked by rule"
    /\ resp.ipAddress = IpInternal
    /\ resp.userAgent = UaMozilla
    /\ \E i \in 1..Len(resp.ruleResults) :
          /\ resp.ruleResults[i].ruleID = "whitelist-internal-ips"
          /\ resp.ruleResults[i].matched
    /\ Len(events[AggregateID(resp.clientID, resp.resource)]) >= 1

\* C9: a blocked call changes nothing in the event store, the rate-limit
\* rule repository or the read model, and its blockingRuleId is the first
\* matched rule with a deny or block action in descending priority order.
C9_BlockedCallChangesNothing ==
    [][(AnswersRequestWithRules /\ resp'.reason = "blocked by rule")
       => LET blocking == MatchedBlockingRules(resp'.clientID, resp'.resource,
                                               resp'.ipAddress, resp'.userAgent)
          IN /\ UNCHANGED <<events, rules, statuses, history, stats, bus, pub, secRules>>
             /\ \E b \in blocking :
                   /\ resp'.blockingRuleID = b.id
                   /\ \A x \in blocking : b.priority >= x.priority
      ]_vars

\* a blocked answer with two matched blocking rules of different priorities
C9_Witness ==
    /\ resp.op = "CheckRequestWithRules"
    /\ resp.reason = "blocked by rule"
    /\ \E i \in 1..Len(resp.ruleResults), j \in 1..Len(resp.ruleResults) :
          /\ i < j
          /\ BlockingResult(resp.ruleResults[i])
          /\ BlockingResult(resp.ruleResults[j])
          /\ resp.blockingRuleID = resp.ruleResults[i].ruleID

\* the last answer is to the request of the whitelist-over-blacklist scenario
WhitelistScenario ==
    /\ resp.op = "CheckRequestWithRules"
    /\ resp.clientID = ClientU
    /\ resp.resource = ResApi
    /\ resp.ipAddress = IpInternal
    /\ resp.userAgent = UaBotTester
    /\ SeedSecurityRules \subseteq secRules

\* C10 as stated: with the seeded rules, a request from 192.168.1.5 with user
\* agent "bot-tester/1.0" for resource "api" matches the whitelist rule
\* (priority 300, allow) and the blacklist rule (priority 200, deny) and is
\* answered allowed = true.
C10_WhitelistWins ==
    WhitelistScenario => (resp.kind = "result" /\ resp.allowed = TRUE)

\* C10: with the seeded rules, that request matches both rules and is
\* answered allowed = false with reason "blocked by rule" and blockingRuleId
\* "block-suspicious-agents": a matched deny action denies whatever the
\* priority of the matched allow rule.
C10_BlacklistWins ==
    WhitelistScenario =>
       /\ resp.kind = "result"
       /\ resp.allowed = FALSE
       /\ resp.reason = "blocked by rule"
       /\ resp.blockingRuleID = "block-suspicious-agents"
       /\ \E i \in 1..Len(resp.ruleResults), j \in 1..Len(resp.ruleResults) :
             /\ i < j
             /\ resp.ruleResults[i].ruleID = "whitelist-internal-ips"
             /\ resp.ruleResults[i].matched
             /\ resp.ruleResults[j].ruleID = "block-suspicious-agents"
             /\ resp.ruleResults[j].matched

\* the scenario's request has been answered
C10_Witness == WhitelistScenario /\ resp.kind = "result"

(***************************************************************************)
(* Scenarios on the login resource                                         *)
(***************************************************************************)
\* C11: with the seeded rules, of four sequential CheckRequestWithRules
\* requests of one client for resource login inside five minutes the first
\* three are answered allowed and the fourth is answered denied with reason
\* "rate limited".
C11_FourthLoginDenied ==
    LET n == Len(events[AggregateID(ClientU, ResLogin)])
    IN (resp.op = "CheckRequestWithRules" /\ resp.resource = ResLogin) =>
          /\ resp.kind = "result"
          /\ n \in 1..3 => resp.allowed
          /\ n = 4 => (~resp.allowed /\ resp.reason = "rate limited")

\* C12: ResetRateLimit for a key whose aggregate has processed requests up
\* to a denial succeeds, and the next request for the key is decided as
\* allowed with requestCount = 1 and remainingQuota = limit - 1.
C12_ResetAfterDenialSucceeds ==
    /\ (/\ resp.op = "ResetRateLimit"
        /\ \E i \in 1..Len(events[AggregateID(resp.clientID, resp.resource)]) :
              events[AggregateID(resp.clientID, resp.resource)][i].type
                 = "RateLimitExceeded")
       => resp.kind = "result"
    /\ \A k \in Keys : \A i \in 1..(Len(events[k]) - 1) :
          events[k][i].type = "RateLimitWindowReset" =>
             /\ events[k][i + 1].type = "RateLimitApplied"
             /\ events[k][i + 1].requestCount = 1
             /\ events[k][i + 1].remainingQuota = events[k][i + 1].limit - 1

(***************************************************************************)
(* Properties of the aggregate                                             *)
(***************************************************************************)
\* the request events of a stream (everything but resets) were decided
\* against the rule's limit
DecidedAgainst(s, rule) ==
    \A i \in 1..Len(s) : s[i].type # "RateLimitWindowReset" => s[i].limit = rule.limit

\* C13: against a rule with limit 0 every ApplyRateLimit, the first one on a
\* fresh aggregate included, produces RateLimitExceeded and never
\* RateLimitApplied.
C13_LimitZeroDeniesAll ==
    \A k \in Keys : \A i \in 1..Len(events[k]) :
        (events[k][i].type # "RateLimitWindowReset" /\ events[k][i].limit = 0)
        => events[k][i].type = "RateLimitExceeded"

\* C14: against a rule with limit 1, in every window of the rule the first
\* ApplyRateLimit produces RateLimitApplied and every further one in the
\* same window produces RateLimitExceeded.
C14_LimitOneAllowsOnePerWindow ==
    \A c \in Clients, r \in Resources :
        LET s == events[AggregateID(c, r)]
        IN \A rule \in GetByResource(rules, r) :
              (rule.limit = 1 /\ DecidedAgainst(s, rule)) =>
                 \A i \in 1..Len(s) :
                     s[i].type # "RateLimitWindowReset" =>
                        LET firstInWindow ==
                                \A j \in 1..(i - 1) :
                                    \/ s[j].type = "RateLimitWindowReset"
                                    \/ Truncate(s[j].time, rule.window)
                                          # Truncate(s[i].time, rule.window)
                        IN (s[i].type = "RateLimitApplied") <=> firstInWindow

\* C15: in every reachable aggregate state, blocked or not and whatever the
\* remaining quota, CanMakeRequest is true at every time strictly after the
\* aggregate's windowEnd.
C15_AllowedAfterWindowEnd ==
    \A c \in Clients, r \in Resources :
        LET s == GetEvents(events, AggregateID(c, r))
        IN \A i \in 0..Len(s) :
              LET a == Rehydrate(c, r, SubSeq(s, 1, i))
              IN /\ \A rule \in GetByResource(rules, r) : \A t \in 0..(MaxTime + 1) :
                       t > a.windowEnd => CanMakeRequest(a, rule, t)
                 /\ (/\ i < Len(s)
                     /\ s[i + 1].type # "RateLimitWindowReset"
                     /\ s[i + 1].time > a.windowEnd)
                    => s[i + 1].type = "RateLimitApplied"

\* a request was decided on a blocked aggregate with no quota left, after
\* the aggregate's windowEnd
C15_Witness ==
    \E c \in Clients, r \in Resources :
        LET s == GetEvents(events, AggregateID(c, r))
        IN \E i \in 1..(Len(s) - 1) :
              LET a == Rehydrate(c, r, SubSeq(s, 1, i))
              IN /\ a.isBlocked
                 /\ a.remainingQuota <= 0
                 /\ s[i + 1].time > a.windowEnd
                 /\ s[i + 1].type = "RateLimitApplied"

\* C16: in every reachable state of a rehydrated aggregate that is not
\* blocked, 0 <= requestCount <= limit, for the limit of the rule the
\* aggregate is checked against.
C16_CountWithinLimit ==
    \A c \in Clients, r \in Resources :
        LET s == events[AggregateID(c, r)]
            a == Rehydrate(c, r, s)
        IN \A rule \in GetByResource(rules, r) :
              (~a.isBlocked /\ DecidedAgainst(s, rule)) =>
                 (0 <= a.requestCount /\ a.requestCount <= rule.limit)

\* C17: in every reachable state of a rehydrated aggregate, if the blocked
\* flag is set then the current time is strictly before blockedUntil.
C17_BlockedOnlyBeforeBlockedUntil ==
    \A c \in Clients, r \in Resources :
        LET a == Rehydrate(c, r, GetEvents(events, AggregateID(c, r)))
        IN a.isBlocked => now < a.blockedUntil

(***************************************************************************)
(* Properties of the read side                                             *)
(***************************************************************************)
\* the read model holds a blocked status for the key and its blockedUntil
\* has not come yet
BlockedInReadModel(clientID, resource) ==
    LET st == statuses[AggregateID(clientID, resource)]
    IN st.exists /\ st.isBlocked /\ now < st.blockedUntil

\* C18: when the read-model status of a key is blocked and the current time
\* is before blockedUntil, CheckRateLimit returns that status without
\* issuing an ApplyRateLimit command: the event store, and with it the
\* aggregate's request count, is unchanged by the call.
C18_BlockedStatusShortCircuits ==
    [][\A c \in Clients, r \in Resources :
          (/\ resp'.op = "CheckRateLimit"
           /\ BlockedInReadModel(c, r)
           /\ CheckRateLimitRequestCapped(c, r, MaxEvents + 1))
          => /\ events' = events
             /\ resp'.kind = "result"
             /\ resp'.status = statuses[AggregateID(c, r)]
             /\ resp'.allowed = FALSE
             /\ UNCHANGED <<rules, statuses, history, stats, bus, pub>>
      ]_vars

\* a call answered from a blocked status while the store had room for the
\* event a command would have saved
C18_Witness ==
    /\ resp.op = "CheckRateLimit"
    /\ resp.kind = "result"
    /\ resp.status.isBlocked
    /\ resp.status = statuses[AggregateID(resp.clientID, resp.resource)]
    /\ now < resp.status.blockedUntil
    /\ TotalEvents <= MaxEvents

\* the events of key k that wait in the projection's channel
QueuedFor(k) ==
    {j \in 1..Len(bus["*"][1]) :
        AggregateID(bus["*"][1][j].clientID, bus["*"][1][j].resource) = k}

\* C19: every event persisted by a successful ApplyRateLimit or
\* ResetRateLimit command is published on the event bus (it waits in the
\* projection's channel or has been applied to the read model), and the
\* status CheckRateLimit returns after its command reflects that command's
\* event.
C19_PersistedEventsArePublished ==
    /\ \A k \in Keys : Len(history[k]) + Cardinality(QueuedFor(k)) >= Len(events[k])
    /\ (resp.op = "CheckRateLimit" /\ resp.kind = "result") =>
          LET s == events[AggregateID(resp.clientID, resp.resource)]
          IN Len(s) >= 1 =>
                /\ resp.status.requestCount = s[Len(s)].requestCount
                /\ resp.status.limit = s[Len(s)].limit

(***************************************************************************)
(* The event bus alone: a publisher, late subscribers and their receivers; *)
(* the projection does not take events, so that its channel fills          *)
(***************************************************************************)
NextBus ==
    \/ \E t \in Topics : BusSubscribe(t)
    \/ PublishBegin(BusEvent)
    \/ PublishSelect
    \/ \E t \in Topics, j \in 1..MaxSubscribers : Receive(t, j)

SpecBus == Init /\ [][NextBus]_vars

\* C20: EventBus.Publish always completes without waiting for a subscriber:
\* a publisher inside Publish can always take its next step, no channel ever
\* holds more than 100 events, a select on a full channel leaves that channel
\* as it is and a select on a channel with free capacity appends the event,
\* no other channel changes, and when the call returns every subscriber of
\* the event's type and of "*" has been offered the event.
C20_PublishNeverWaits ==
    [][/\ \A t \in Topics : \A j \in 1..Len(bus'[t]) : Len(bus'[t][j]) <= ChannelCapacity
       /\ pub.pc # "idle" => ENABLED PublishSelect
       /\ (PublishSelect /\ pub.i <= Len(PublishChannels(bus, pub))) =>
             LET topic == PublishTopic(pub)
                 ch == bus[topic][pub.i]
             IN /\ bus'[topic][pub.i] =
                      IF Len(ch) < ChannelCapacity THEN Append(ch, pub.event) ELSE ch
                /\ \A t \in Topics : \A j \in 1..Len(bus[t]) :
                      <<t, j>> # <<topic, pub.i>> => bus'[t][j] = bus[t][j]
       /\ (PublishSelect /\ pub'.pc = "idle") =>
             Len(pub.taken) = Len(bus[pub.event.type]) + Len(bus["*"])
      ]_vars

\* inside one Publish the projection's full channel was skipped and the next
\* subscriber of "*" received the event
C20_Witness ==
    /\ pub.pc = "all"
    /\ pub.taken = <<"default", "sent">>
    /\ Len(bus["*"][1]) = ChannelCapacity
    /\ Len(bus["*"][2]) \in 1..(ChannelCapacity - 1)
    /\ bus["*"][2][Len(bus["*"][2])] = pub.event

\* the history entry the projection appends for a delivered event
DeliveredAs(h, e) ==
    /\ h.eventID = e.id
    /\ h.eventType = e.type
    /\ h.timestamp = e.time
    /\ h.clientID = e.clientID
    /\ h.resource = e.resource

\* C21: on every subscriber channel the events a subscriber receives are a
\* subsequence, in publish order, of the events published to it: a step
\* either leaves a channel as it is, or appends one published event once at
\* its tail, or hands its oldest event to the receiver and keeps the others
\* in their order; the projection applies to the read model the event it
\* took from the head.
C21_ChannelIsFifo ==
    [][\A t \in Topics : \A j \in 1..Len(bus[t]) :
          LET ch == bus[t][j]
              after == bus'[t][j]
          IN \/ after = ch
             \/ \E k \in Keys : \E i \in 1..Len(events[k]) :
                   /\ bus' = Publish(bus, events[k][i])
                   /\ after = Append(ch, events[k][i])
             \/ /\ Len(ch) >= 1
                /\ after = Tail(ch)
                /\ <<t, j>> = <<"*", 1>>
                /\ LET key == AggregateID(Head(ch).clientID, Head(ch).resource)
                   IN /\ Len(history'[key]) = Len(history[key]) + 1
                      /\ DeliveredAs(history'[key][Len(history'[key])], Head(ch))
                      /\ \A k \in Keys \ {key} : history'[k] = history[k]
      ]_vars

\* the projection has applied one event while a different event, published
\* after it, waits in its channel
C21_Witness ==
    \E k \in Keys :
       /\ Len(history[k]) >= 1
       /\ Len(bus["*"][1]) >= 1
       /\ ~DeliveredAs(history[k][Len(history[k])], Head(bus["*"][1]))
       /\ \E i \in 1..Len(events[k]) : DeliveredAs(history[k][Len(history[k])], events[k][i])

\* C22: ApplyRateLimit for a resource that has no rate-limit rule fails with
\* the no-rules error and persists no event: every stream is the same after
\* the call as before it.
C22_NoRulesPersistsNothing ==
    [][\A c \in Clients, r \in Resources :
          (/\ GetByResource(rules, r) = {}
           /\ resp'.op = "ApplyRateLimit"
           /\ ApplyRateLimit(c, r))
          => /\ resp'.kind = "error"
             /\ resp'.reason = "norules"
             /\ events' = events
      ]_vars

\* the command failed with the no-rules error on an aggregate whose stream
\* is not empty
C22_Witness ==
    /\ resp.op = "ApplyRateLimit"
    /\ resp.reason = "norules"
    /\ GetByResource(rules, resp.resource) = {}
    /\ Len(events[AggregateID(resp.clientID, resp.resource)]) >= 1

\* C23: after any sequence of CheckRequestWithRules calls that match
\* rate_limit actions for a resource, the rule ApplyRateLimit enforces for
\* the resource is the most recently installed dynamic rule (every event of
\* the login stream carries the dynamic limit), and the installation
\* replaces the resource's rule: a resource has no more rules than it had
\* at the start.
C23_DynamicRuleReplaces ==
    /\ \A r \in Resources :
          Cardinality(GetByResource(rules, r))
             <= Max(1, Cardinality(GetByResource(SeedRateLimitRules, r)))
    /\ LET s == events[AggregateID(ClientU, ResLogin)]
       IN \A i \in 1..Len(s) :
             s[i].type \in {"RateLimitApplied", "RateLimitExceeded"}
                => s[i].limit = DynLoginLimit

\* C24: when SaveEvents reports a concurrency conflict to the ApplyRateLimit
\* command handler, the handler runs the command again at most once before
\* it returns the conflict to the caller: a run of the handler calls
\* SaveEvents at most twice, and a conflict either ends the run with the
\* conflict as its result, the store unchanged, or starts the run's one
\* retry.
C24_AtMostOneRetry ==
    [][\A p \in Procs :
          /\ cmd'[p].attempt <= 2
          /\ (/\ pc[p] = "decided"
              /\ pc'[p] # "decided"
              /\ SaveEvents(events, KeyOf(p), <<pending[p]>>, agg[p].version).err
                    = "conflict")
             => /\ events' = events
                /\ \/ pc'[p] = "idle" /\ result'[p] = "conflict"
                   \/ /\ pc'[p] = "loaded"
                      /\ cmd[p].attempt = 1
                      /\ cmd'[p].attempt = 2
      ]_vars

\* the handler has returned a conflict to its caller
C24_Witness ==
    \E p \in Procs :
       /\ Finished(p)
       /\ result[p] = "conflict"
       /\ cmd[p].attempt \in 1..2
       /\ Len(events[KeyOf(p)]) >= 1

\* C25: Update of a rate-limit rule whose id is not in the repository fails
\* with the not-found error and leaves the repository unchanged; a rule that
\* was saved is returned by GetByID with the fields it was saved with, and
\* so is every rule the repository holds.
C25_UpdateNotFoundSaveRoundTrip ==
    [][/\ \A rule \in RepoRulePool :
             (/\ resp'.op = "UpdateRule"
              /\ RepoUpdate(rule)
              /\ RuleRepoGetByID(rules, rule.id).err = "notfound")
             => /\ resp'.kind = "error"
                /\ resp'.reason = "notfound"
                /\ rules' = rules
       /\ \A rule \in RepoRulePool :
             (resp'.op = "SaveRule" /\ RepoSave(rule))
             => RuleRepoGetByID(rules', rule.id) = [err |-> "ok", rule |-> rule]
       /\ \A x \in rules' : RuleRepoGetByID(rules', x.id) = [err |-> "ok", rule |-> x]
      ]_vars

\* an Update failed with not-found while the repository holds a saved rule
\* under a new id
C25_Witness ==
    /\ resp.op = "UpdateRule"
    /\ resp.kind = "error"
    /\ resp.reason = "notfound"
    /\ \E x \in rules : x.id > Cardinality(SeedRateLimitRules) /\ x \in RepoRulePool

\* C26: the first RateLimitApplied event emitted for an aggregate after its
\* window has expired starts a new count: it carries requestCount = 1 and
\* remainingQuota = limit - 1.
C26_ExpiredWindowRestartsCount ==
    \A c \in Clients, r \in Resources :
        LET s == GetEvents(events, AggregateID(c, r))
        IN \A i \in 1..(Len(s) - 1) :
              LET a == Rehydrate(c, r, SubSeq(s, 1, i))
              IN (/\ s[i + 1].type = "RateLimitApplied"
                  /\ a.windowEnd # ZeroTime
                  /\ s[i + 1].time > a.windowEnd)
                 => /\ s[i + 1].requestCount = 1
                    /\ s[i + 1].remainingQuota = s[i + 1].limit - 1

\* C27: in every reachable aggregate state CanMakeRequest returns true if
\* and only if at least one of these holds: the aggregate is not currently
\* blocked (now >= blockedUntil), the current window has expired
\* (now > windowEnd), or remainingQuota > 0.
C27_AllowedIffAnyOfThree ==
    \A c \in Clients, r \in Resources :
        LET s == GetEvents(events, AggregateID(c, r))
        IN \A i \in 0..Len(s) :
              LET a == Rehydrate(c, r, SubSeq(s, 1, i))
              IN \A rule \in GetByResource(rules, r) : \A t \in 0..(MaxTime + 1) :
                    CanMakeRequest(a, rule, t)
                       <=> (t >= a.blockedUntil \/ t > a.windowEnd \/ a.remainingQuota > 0)

\* C27, as the code has it: CanMakeRequest returns true if and only if the
\* aggregate is not currently blocked and, in addition, the window has
\* expired or remainingQuota > 0.
C27_AllowedIffUnblockedAndRoom ==
    \A c \in Clients, r \in Resources :
        LET s == GetEvents(events, AggregateID(c, r))
        IN \A i \in 0..Len(s) :
              LET a == Rehydrate(c, r, SubSeq(s, 1, i))
              IN /\ \A rule \in GetByResource(rules, r) : \A t \in 0..(MaxTime + 1) :
                       CanMakeRequest(a, rule, t)
                          <=> /\ ~a.isBlocked \/ t >= a.blockedUntil
                              /\ t > a.windowEnd \/ a.remainingQuota > 0
                 /\ (i < Len(s) /\ s[i + 1].type # "RateLimitWindowReset") =>
                       (s[i + 1].type = "RateLimitApplied"
                          <=> /\ ~a.isBlocked \/ s[i + 1].time >= a.blockedUntil
                              /\ s[i + 1].time > a.windowEnd \/ a.remainingQuota > 0)

\* a request was refused on an aggregate that was not blocked, inside its
\* window, with no quota left
C27_Witness ==
    \E c \in Clients, r \in Resources :
        LET s == GetEvents(events, AggregateID(c, r))
        IN \E i \in 1..(Len(s) - 1) :
              LET a == Rehydrate(c, r, SubSeq(s, 1, i))
              IN /\ ~a.isBlocked
                 /\ a.remainingQuota <= 0
                 /\ s[i + 1].time <= a.windowEnd
                 /\ s[i + 1].type = "RateLimitExceeded"

(***************************************************************************)
(* Properties of the rule engine                                           *)
(***************************************************************************)
InsertAt(s, p, x) == SubSeq(s, 1, p) \o <<x>> \o SubSeq(s, p + 1, Len(s))

\* C28: HasBlockingAction(results) is true if and only if some result with
\* matched = true contains an action of type deny or block; adding a result
\* with matched = false to the list, at any position, does not change its
\* answer.
C28_BlockingIffMatchedDenyOrBlock ==
    resp.op = "HasBlockingAction" =>
       LET rs == resp.ruleResults
       IN /\ resp.allowed <=>
                \E i \in 1..Len(rs) :
                   /\ rs[i].matched
                   /\ \E j \in 1..Len(rs[i].actions) :
                         rs[i].actions[j].type \in {"deny", "block"}
          /\ \A u \in {x \in ResultPool : ~x.matched} : \A p \in 0..Len(rs) :
                HasBlockingAction(InsertAt(rs, p, u)) = resp.allowed

\* the answer for a list that starts with an unmatched result holding a deny
\* action and has a matched result holding a block action after it
C28_Witness ==
    /\ resp.op = "HasBlockingAction"
    /\ resp.allowed
    /\ Len(resp.ruleResults) = MaxResults
    /\ ~resp.ruleResults[1].matched
    /\ resp.ruleResults[1].actions = <<DenyAction>>
    /\ resp.ruleResults[MaxResults].matched
    /\ resp.ruleResults[MaxResults].actions = <<AllowAction, BlockAction>>

\* numeric order on two operands, false when either is not a number
NumericCompare(operator, a, b) ==
    /\ IsNumber(a)
    /\ IsNumber(b)
    /\ CASE operator = "greater_than" -> a.num > b.num
         [] operator = "less_than" -> a.num < b.num
         [] operator = "greater_equal" -> a.num >= b.num
         [] operator = "less_equal" -> a.num <= b.num

\* C30: for numeric field and condition values a and b the condition
\* operators agree with numeric order: greater_than holds iff a > b,
\* less_than iff a < b, greater_equal iff a >= b, less_equal iff a <= b; when
\* either operand is not numeric all four are false.
C30_ComparisonsAgreeWithOrder ==
    [][\A op \in CompareOperators, a \in OperandPool, b \in OperandPool :
          (resp'.op = "evaluateCondition" /\ EvaluateConditionCall(op, a, b))
          => (resp'.allowed <=> NumericCompare(op, a, b))
      ]_vars

\* whether a condition holds for a context: the field has a value and the
\* operator, read as equality, string prefix or numeric order, relates it to
\* the condition's value
ConditionHolds(condition, ctx) ==
    LET fv == FieldValue(condition.field, ctx)
    IN /\ fv.found
       /\ CASE condition.operator = "equals" -> ValueEq(fv.value, condition.value)
            [] condition.operator = "starts_with" ->
                 /\ fv.value.kind = "string"
                 /\ condition.value.kind = "string"
                 /\ \E n \in 0..Len(fv.value.str) :
                       SubSeq(fv.value.str, 1, n) = condition.value.str
            [] condition.operator = "contains" ->
                 /\ fv.value.kind = "string"
                 /\ condition.value.kind = "string"
                 /\ \E m \in 1..(Len(fv.value.str) + 1) : \E n \in (m - 1)..Len(fv.value.str) :
                       SubSeq(fv.value.str, m, n) = condition.value.str
            [] condition.operator \in CompareOperators ->
                 NumericCompare(condition.operator, fv.value, condition.value)
            [] OTHER -> evaluateCondition(condition, ctx)

\* C29: EvaluateRules returns exactly one result for every enabled rule in
\* the repository and none for a disabled rule, ordered by non-increasing
\* rule priority; a result has matched = true exactly when all of the rule's
\* conditions hold for the context, and carries the rule's action list when
\* matched and an empty list otherwise.
C29_OneResultPerEnabledRule ==
    [][\A ctx \in EngineContexts :
          (resp'.op = "EvaluateRules" /\ EvaluateRulesCall(ctx)) =>
             LET rs == resp'.ruleResults
                 RuleOf(i) == CHOOSE rule \in secRules : rule.id = rs[i].ruleID
             IN /\ \A rule \in secRules :
                      Cardinality({i \in 1..Len(rs) : rs[i].ruleID = rule.id})
                         = IF rule.enabled THEN 1 ELSE 0
                /\ \A i \in 1..Len(rs) : \E rule \in secRules : rule.id = rs[i].ruleID
                /\ \A i \in 1..Len(rs) : \A j \in (i + 1)..Len(rs) :
                      RuleOf(i).priority >= RuleOf(j).priority
                /\ \A i \in 1..Len(rs) :
                      /\ rs[i].matched <=>
                            \A n \in 1..Len(RuleOf(i).conditions) :
                               ConditionHolds(RuleOf(i).conditions[n], ctx)
                      /\ rs[i].actions = IF rs[i].matched THEN RuleOf(i).actions ELSE <<>>
      ]_vars

\* the operator paired with an operator
PairedWith(operator) ==
    CASE operator = "equals" -> "not_equals"
      [] operator = "not_equals" -> "equals"
      [] operator = "in" -> "not_in"
      [] operator = "not_in" -> "in"
      [] operator = "greater_than" -> "less_equal"
      [] operator = "less_equal" -> "greater_than"

\* C31: on every field value and condition value on which a condition is
\* evaluated, exactly one of equals and not_equals holds, exactly one of in
\* and not_in holds for the same set of values, and exactly one of
\* greater_than and less_equal holds
C31_PairedOperatorsAreComplements ==
    (/\ resp.op = "evaluateCondition"
     /\ resp.condition.operator \in PairedOperators
     /\ resp.condition.operator \in {"in", "not_in"} => resp.condition.value.kind = "list")
    => resp.allowed #
         evaluateCondition([resp.condition EXCEPT !.operator = PairedWith(resp.condition.operator)],
                           ConditionContext(resp.fieldValue, now))

C31_Witness ==
    /\ resp.op = "evaluateCondition"
    /\ resp.condition.operator = "not_in"
    /\ resp.condition.value = ListVal(<< <<"1">>, <<"2">> >>)
    /\ resp.fieldValue = StrVal(<<"2">>)
    /\ ~resp.allowed

(***************************************************************************)
(* The read model next to its callers: a projection feeding it events of  *)
(* every kind, and queries reading statuses and statistics                *)
(***************************************************************************)
MaxProjected == 3
MaxMinutes == 1

\* the resources of the projected events
ProjectedResources == {ResData, ResLogin}

\* the limit carried by the projected events
ProjectedLimit == 2

\* events a projection can receive at time t, one of each kind per key
ProjectedEvents(t) ==
    UNION {
       {RateLimitAppliedEvent("e", t, c, r, 1, t, t + Second, n, ProjectedLimit, ProjectedLimit - n) : n \in 1..ProjectedLimit}
       \cup {RateLimitExceededEvent("e", t, c, r, 1, ProjectedLimit + 1, ProjectedLimit, t, t + Second, t + Second)}
       \cup {RateLimitWindowResetEvent("e", t, c, r, 1, t)}
       : c \in Clients, r \in ProjectedResources }

\* time passing by a whole minute
TickMinute ==
    /\ now + Minute <= MaxMinutes * Minute + MaxTime
    /\ now' = now + Minute
    /\ UNCHANGED <<events, rules, secRules, statuses, history, stats, bus, pub, pc, cmd, agg, pending, result, resp>>

\* capacity of a slice grown from make(..., 0) by appends of one element:
\* the runtime doubles a full backing array
RECURSIVE SliceCap(_)
SliceCap(n) == IF n <= 1 THEN n ELSE 2 * SliceCap((n + 1) \div 2)

\* a slice header copied out of the stored statistics: it reads the stored
\* backing array until an append moves the stored slice to a new array
SharedSlice(held, shared, old, new) ==
    IF ~shared THEN [slice |-> held, shared |-> FALSE]
    ELSE IF Len(new) > Len(old) /\ Len(old) = SliceCap(Len(old))
    THEN [slice |-> held, shared |-> FALSE]
    ELSE [slice |-> SubSeq(new, 1, Len(held)), shared |-> TRUE]

\* the value GetClientStats returned, as its caller holds it: result := *stats
\* copies the counters and the two slice headers
StatsResponse(clientID, st, resourceShared, seriesShared) ==
    [op |-> "GetClientStats", kind |-> "result", clientID |-> clientID,
     resource |-> <<>>, ipAddress |-> <<>>, userAgent |-> <<>>,
     allowed |-> FALSE, reason |-> "", ruleResults |-> <<>>, status |-> NoStatus,
     blockingRuleID |-> "", stats |-> st,
     resourceShared |-> resourceShared, seriesShared |-> seriesShared]

\* the held value after the stored statistics of its client went from old to new
HeldAfterUpdate(held, old, new) ==
    IF held.op # "GetClientStats" \/ ~old.exists THEN held
    ELSE LET rs == SharedSlice(held.stats.resourceStats, held.resourceShared,
                               old.resourceStats, new.resourceStats)
             ts == SharedSlice(held.stats.timeSeriesData, held.seriesShared,
                               old.timeSeriesData, new.timeSeriesData)
         IN StatsResponse(held.clientID,
                          [held.stats EXCEPT !.resourceStats = rs.slice,
                                             !.timeSeriesData = ts.slice],
                          rs.shared, ts.shared)

\* InMemoryReadModel.UpdateFromEvent
UpdateFromEventCall(e) ==
    /\ HistoryCount(history, DOMAIN history) < MaxProjected
    /\ LET rm == UpdateFromEvent(ReadModel(statuses, history, stats), e, now)
       IN /\ statuses' = rm.statuses
          /\ history' = rm.history
          /\ stats' = rm.stats
          /\ resp' = IF resp.op = "GetClientStats" /\ resp.clientID = e.clientID
                     THEN HeldAfterUpdate(resp, stats[e.clientID], rm.stats[e.clientID])
                     ELSE resp
    /\ UNCHANGED <<events, rules, secRules, bus, pub, now, pc, cmd, agg, pending, result>>

\* InMemoryReadModel.GetRateLimitStatus
GetRateLimitStatusCall(clientID, resource) ==
    /\ resp' = Response("GetRateLimitStatus", "result", clientID, resource, <<>>, <<>>,
                        FALSE, "", <<>>,
                        GetRateLimitStatus(statuses, clientID, resource, now), "")
    /\ UNCHANGED <<events, rules, secRules, statuses, history, stats, bus, pub, now, pc, cmd, agg, pending, result>>

\* InMemoryReadModel.GetClientStats
GetClientStatsCall(clientID) ==
    /\ resp' = StatsResponse(clientID, GetClientStats(stats, clientID),
                             stats[clientID].exists, stats[clientID].exists)
    /\ UNCHANGED <<events, rules, secRules, statuses, history, stats, bus, pub, now, pc, cmd, agg, pending, result>>

NextReadModel ==
    \/ Tick
    \/ TickMinute
    \/ \E e \in ProjectedEvents(now) : UpdateFromEventCall(e)
    \/ \E c \in Clients, r \in ProjectedResources : GetRateLimitStatusCall(c, r)
    \/ \E c \in Clients : GetClientStatsCall(c)

SpecReadModel == Init /\ [][NextReadModel]_vars

\* C32: applying the same Applied, Exceeded or WindowReset event to the read
\* model twice leaves status, history and client statistics as applying it once
C32_ProjectionIsIdempotent ==
    [][\A e \in ProjectedEvents(now) :
          UpdateFromEventCall(e)
          => UpdateFromEvent(ReadModel(statuses', history', stats'), e, now)
               = ReadModel(statuses', history', stats')]_vars

\* C33: after a WindowReset is projected for a key that has a status, the
\* next GetRateLimitStatus returns isAllowed = true, requestCount = 0 and
\* isBlocked = false whatever the status was; for a key without a status the
\* reset creates none and the query returns the default allowed status
C33_ResetMakesStatusAllowed ==
    [][\A e \in ProjectedEvents(now) :
          (e.type = "RateLimitWindowReset" /\ UpdateFromEventCall(e))
          => LET key == AggregateID(e.clientID, e.resource)
                 answer == GetRateLimitStatus(statuses', e.clientID, e.resource, now')
             IN /\ answer.isAllowed
                /\ answer.requestCount = 0
                /\ ~answer.isBlocked
                /\ ~statuses[key].exists => ~statuses'[key].exists]_vars

\* C34: a value returned by GetClientStats is a snapshot: whatever
\* UpdateFromEvent calls for the same client follow, its totals, its
\* per-resource statistics and its time-series entries do not change
C34_ClientStatsIsSnapshot ==
    [][\A e \in ProjectedEvents(now) :
          (resp.op = "GetClientStats" /\ resp.clientID = e.clientID /\ UpdateFromEventCall(e))
          => /\ resp'.stats.totalRequests = resp.stats.totalRequests
             /\ resp'.stats.blockedRequests = resp.stats.blockedRequests
             /\ resp'.stats.allowedRequests = resp.stats.allowedRequests
             /\ resp'.stats.resourceStats = resp.stats.resourceStats
             /\ resp'.stats.timeSeriesData = resp.stats.timeSeriesData]_vars

RECURSIVE SeqSum(_)
SeqSum(s) == IF s = <<>> THEN 0 ELSE Head(s) + SeqSum(Tail(s))

\* every counter of the statistics adds up
CountersAddUp(st) ==
    /\ st.totalRequests = st.allowedRequests + st.blockedRequests
    /\ \A i \in 1..Len(st.resourceStats) :
          st.resourceStats[i].totalRequests
             = st.resourceStats[i].allowedRequests + st.resourceStats[i].blockedRequests
    /\ \A i \in 1..Len(st.timeSeriesData) :
          st.timeSeriesData[i].totalRequests
             = st.timeSeriesData[i].allowedRequests + st.timeSeriesData[i].blockedRequests
    /\ st.totalRequests = SeqSum([i \in 1..Len(st.resourceStats) |-> st.resourceStats[i].totalRequests])
    /\ st.allowedRequests = SeqSum([i \in 1..Len(st.resourceStats) |-> st.resourceStats[i].allowedRequests])
    /\ st.blockedRequests = SeqSum([i \in 1..Len(st.resourceStats) |-> st.resourceStats[i].blockedRequests])

\* C40: after any sequence of projected events, for every client
\* totalRequests = allowedRequests + blockedRequests, the same holds for
\* every per-resource entry and every minute bucket, the client's totals are
\* the sums of its per-resource entries, and a WindowReset changes none of
\* these counters
C40_StatisticsAddUp ==
    [][\A e \in ProjectedEvents(now) :
          UpdateFromEventCall(e)
          => /\ \A c \in Clients : CountersAddUp(stats'[c])
             /\ e.type = "RateLimitWindowReset" => stats' = stats]_vars

C40_Witness ==
    /\ stats[ClientU].totalRequests = 2
    /\ stats[ClientU].blockedRequests = 1
    /\ Len(stats[ClientU].resourceStats) = 2
    /\ Len(stats[ClientU].timeSeriesData) = 2
    /\ Len(history[AggregateID(ClientU, ResData)]) >= 1
    /\ history[AggregateID(ClientU, ResData)][Len(history[AggregateID(ClientU, ResData)])].eventType
          = "RateLimitWindowReset"

\* C35: every stored event, of any of the three kinds, carries as its version
\* its 1-based position in its stream, after any interleaving of
\* ApplyRateLimit and ResetRateLimit
C35_VersionIsPosition ==
    \A k \in Keys : \A i \in 1..Len(events[k]) : events[k][i].version = i

C35_Witness ==
    \E k \in Keys :
        /\ Len(events[k]) = 2
        /\ events[k][1].type = "RateLimitWindowReset"
        /\ events[k][1].version = 1
        /\ events[k][2].type = "RateLimitApplied"
        /\ events[k][2].version = 2
        /\ \E p \in Procs : result[p] = "conflict"

C39_QuotaNeverNegative ==
    /\ \A k \in Keys : \A i \in 1..Len(events[k]) :
          events[k][i].type = "RateLimitApplied"
          => /\ events[k][i].requestCount + events[k][i].remainingQuota = events[k][i].limit
             /\ events[k][i].requestCount >= 1
             /\ events[k][i].remainingQuota >= 0
    /\ \A k \in Keys : statuses[k].exists => statuses[k].remainingQuota >= 0

\* the number of Applied events of a stream that carry the window start ws
AppliedInWindow(stream, ws) ==
    Cardinality({i \in 1..Len(stream) :
                    stream[i].type = "RateLimitApplied" /\ stream[i].windowStart = ws})

\* C36: for a resource with one fixed rule of limit L >= 1, under any
\* interleaving of concurrent ApplyRateLimit commands, the number of Applied
\* events of a stream that carry the same windowStart never exceeds L
C36_AppliedPerWindowWithinLimit ==
    \A c \in Clients, r \in Resources :
       \A rule \in GetByResource(rules, r) :
          (GetByResource(rules, r) = {rule} /\ rule.limit >= 1)
          => \A i \in 1..Len(events[AggregateID(c, r)]) :
                AppliedInWindow(events[AggregateID(c, r)],
                                events[AggregateID(c, r)][i].windowStart) <= rule.limit

C36_Witness ==
    /\ \E rule \in rules : GetByResource(rules, ResData) = {rule} /\ rule.limit = 1
    /\ Len(events[AggregateID(ClientU, ResData)]) = 2
    /\ events[AggregateID(ClientU, ResData)][1].type = "RateLimitApplied"
    /\ events[AggregateID(ClientU, ResData)][2].type = "RateLimitExceeded"
    /\ events[AggregateID(ClientU, ResData)][2].time = events[AggregateID(ClientU, ResData)][1].time
    /\ \E p \in Procs : result[p] = "conflict"

(***************************************************************************)
(* Clients and resources whose identifiers contain the separator of the   *)
(* aggregate id                                                            *)
(***************************************************************************)
PairClients == {<<"a">>, <<"a", ":", "b">>}
PairResources == {<<"c">>, <<"b", ":", "c">>}
PairKeys == {AggregateID(c, r) : c \in PairClients, r \in PairResources}

\* one rule per resource, as an operator creates them through CreateRule
PairRules ==
    {RateLimitRule(1, <<"c">>, 2, Second, AlgSlidingWindow),
     RateLimitRule(2, <<"b", ":", "c">>, 2, Second, AlgSlidingWindow)}

InitPairs ==
    /\ events = [k \in PairKeys |-> <<>>]
    /\ rules = PairRules
    /\ secRules = SeedSecurityRules
    /\ statuses = [k \in PairKeys |-> NoStatus]
    /\ history = [k \in PairKeys |-> <<>>]
    /\ stats = [c \in PairClients |-> NoStats]
    /\ bus = Subscribe(NewEventBus, "*")
    /\ pub = NoPublisher
    /\ now = 0
    /\ pc = [p \in Procs |-> "idle"]
    /\ cmd = [p \in Procs |-> NoCommand]
    /\ agg = [p \in Procs |-> NoAggregate]
    /\ pending = [p \in Procs |-> NoEvent]
    /\ result = [p \in Procs |-> "none"]
    /\ resp = NoResponse

\* the projection receiving the i-th stored event of a stream
ProjectStored(k, i) ==
    /\ i \in 1..Len(events[k])
    /\ UpdateFromEventCall(events[k][i])

NextPairs ==
    \/ Tick
    \/ \E c \in PairClients, r \in PairResources : ApplyRateLimit(c, r)
    \/ \E k \in PairKeys, i \in 1..MaxStream : ProjectStored(k, i)

SpecPairs == InitPairs /\ [][NextPairs]_vars

\* C37: commands for two different (clientId, resource) pairs never share
\* state: a command for one pair leaves the event stream and the read-model
\* status of every other pair unchanged, for all identifiers, also ones that
\* contain ':'
C37_PairsShareNoState ==
    [][\A c \in PairClients, r \in PairResources :
          \A c2 \in PairClients, r2 \in PairResources :
             (<<c2, r2>> # <<c, r>>)
             => /\ ApplyRateLimit(c, r)
                   => events'[AggregateID(c2, r2)] = events[AggregateID(c2, r2)]
                /\ \A k \in PairKeys, i \in 1..MaxStream :
                      (/\ i <= Len(events[k])
                       /\ events[k][i].clientID = c
                       /\ events[k][i].resource = r
                       /\ ProjectStored(k, i))
                      => statuses'[AggregateID(c2, r2)] = statuses[AggregateID(c2, r2)]]_vars
====
